---- MODULE Spec2Model ----
(***************************************************************************)
(* Ingestion and batch-processing pipeline of Semantic-Document-Explorer:  *)
(* the Drive tree walker and the transfer engine (DataBaseManager.py), the *)
(* batch orchestrator and the report consolidator (ReportGeneretor.py,     *)
(* FolderManager.py), the model client (LLMManager.py), the site crawler   *)
(* (WebTools.py) and the chunking of token lists (EmbeddingGenerator.py).  *)
(*                                                                         *)
(* One module, several specifications over one set of variables:           *)
(*   SpecWalk      list_files_recursively / _scan_items                    *)
(*   SpecList      list_files (one container, paginated by the server)     *)
(*   SpecTransfer  download_file and its two tenacity-decorated steps      *)
(*   Spec          process_batches with its jobs and download threads      *)
(*   FairSpec      Spec with the scheduling of the event loop              *)
(*   SpecBatchSize Spec plus calls with a batch size that is not positive  *)
(*   SpecApiWalk   GoogleDriveAPI.list_files_recursively                   *)
(*   SpecConsolidate  save_final_report called repeatedly                  *)
(*   SpecTreeWalk  the walk of a tree when no request raises               *)
(*   SpecPartition the slicing of the file list into batches               *)
(*   SpecTruncate  the truncation of extracted text to max_chars           *)
(*   SpecResolve   _prepare_file_download: export format and file name     *)
(*   SpecLLM       GeminiLLM.executar_solicitacao and its rate limiter     *)
(*   SpecCrawl     CrawlAndScrapeSiteTool._run                             *)
(*   SpecChunks    EmbeddingGenerator.process_batch: chunks of a file      *)
(* A specification leaves the variables of the other components at their   *)
(* idle values.                                                            *)
(***************************************************************************)
EXTENDS Integers, Sequences, FiniteSets, TLC

VARIABLES
    \* ---- the remote store and the tree walker
    drive,              \* folder id -> set of ids of its children ("'<id>' in parents")
    processed_folders,  \* DataBaseManager._processed_folders
    stack,              \* call stack of list_files_recursively, innermost frame last
    walk_result,        \* value returned by the last finished top-level walk (<<>> while one runs)
    \* ---- list_files
    list_call,          \* the last list_files call: arguments, returned list, token left in the answer
    \* ---- download_file
    xfer,               \* one transfer: position, log of API calls, result, disk effect
    \* ---- process_batches
    pb_pc,              \* where process_batches is: idle, gather, crew, done, raised
    i,                  \* loop variable of process_batches (start index of the batch)
    job,                \* file index -> the process_file_in_batch coroutine for it
    thread,             \* file index -> the worker thread running blocking_download_wrapper
    disk,               \* staging directory: path -> index of the file last written there, 0 = absent
    temp_dir_exists,    \* whether the staging directory exists
    batch_analysis_tasks,       \* of the current batch, after process_batch_results
    batch_downloaded_files,     \* of the current batch, after process_batch_results
    batch_report_task,          \* of the current batch, after create_report_task
    all_final_reports_content,  \* fragments collected so far
    all_downloaded_files_ever,
    final_report,       \* the consolidated report file in report_dir
    \* ---- save_final_report called on its own
    consol,             \* the fragment list, the clock, the files of report_dir, the times of the saves
    \* ---- one call of a function of its arguments only
    call,               \* the function called, its arguments, its loop position, its result
    \* ---- GeminiLLM (LLMManager.py)
    llm,                \* the clock, the rate-limit counters, the requests sent to the model
    \* ---- CrawlAndScrapeSiteTool._run (WebTools.py)
    crawl               \* the site, the arguments, the queue, the crawled set, the result

walkVars == <<drive, processed_folders, stack, walk_result>>
listVars == <<list_call>>
xferVars == <<xfer>>
batchVars ==
    <<pb_pc, i, job, thread, disk, temp_dir_exists, batch_analysis_tasks,
      batch_downloaded_files, batch_report_task, all_final_reports_content,
      all_downloaded_files_ever, final_report>>
consolVars == <<consol>>
callVars == <<call>>
toolVars == <<llm, crawl>>
vars ==
    <<drive, processed_folders, stack, walk_result, list_call, xfer, batchVars, consolVars,
      callVars, toolVars>>

None == "None"

(***************************************************************************)
(* The remote store.                                                       *)
(***************************************************************************)
Folders == {1, 2, 3}
DriveFiles == {4, 5}
Items == Folders \cup DriveFiles
TARGET_FOLDER_ID == 1   \* the container every top-level walk starts from

MaxChildren == 2     \* children per container in the graphs explored
WalkPageSize == 1    \* pageSize of the recursive listing, scaled down from 100

FOLDER_MIME == "application/vnd.google-apps.folder"
mimeType(item) == IF item \in Folders THEN FOLDER_MIME ELSE "application/octet-stream"

RECURSIVE SortedSeq(_)
SortedSeq(S) ==
    IF S = {} THEN <<>>
    ELSE LET m == CHOOSE x \in S : \A y \in S : x <= y
         IN  <<m>> \o SortedSeq(S \ {m})

\* files().list(q, pageSize, pageToken).execute(): the page `token` (1 = the
\* first page, requested with pageToken=None) of the children that match.
ServerList(matching, pageSize, token) ==
    LET all == SortedSeq(matching)
        lo == (token - 1) * pageSize + 1
        hi == IF token * pageSize < Len(all) THEN token * pageSize ELSE Len(all)
    IN  [files |-> SubSeq(all, lo, hi),
         nextPageToken |-> IF token * pageSize < Len(all) THEN token + 1 ELSE 0]

Graphs == [Folders -> {S \in SUBSET Items : Cardinality(S) <= MaxChildren}]

\* The containers reachable from `root` in graph g (root included).
RECURSIVE ReachFrom(_, _)
ReachFrom(g, seen) ==
    LET more == {c \in Folders : \E f \in seen : c \in g[f]} \ seen
    IN  IF more = {} THEN seen ELSE ReachFrom(g, seen \cup more)

\* The graphs a walk is started on: any graph, cycles and shared children
\* included; a container the walk cannot reach is left empty, since nothing
\* ever lists it.
WalkGraphs ==
    {g \in Graphs : \A f \in Folders \ ReachFrom(g, {TARGET_FOLDER_ID}) : g[f] = {}}

(***************************************************************************)
(* Tree walker: DataBaseManager.list_files_recursively and _scan_items.    *)
(***************************************************************************)
Frame(folder) ==
    [folder |-> folder, phase |-> "fetch", page_token |-> 1, next |-> 0,
     items |-> <<>>, all_files |-> <<>>]

Top == stack[Len(stack)]
SetTop(f) == [stack EXCEPT ![Len(stack)] = f]

\* A walker that never recognises a folder it has entered before
AlreadyProcessedNever(folder_id, processed) == FALSE

\* DataBaseManager.py:301 and :276, the test that stops a second entry
AlreadyProcessed(folder_id, processed) == folder_id \in processed

MaxDepth == Cardinality(Folders) + 1

\* A top-level call of db_manager.list_files_recursively(root), as Main does.
list_files_recursively(root) ==
    /\ stack = <<>>
    /\ IF AlreadyProcessed(root, processed_folders)
       THEN /\ walk_result' = <<>>
            /\ UNCHANGED <<stack, processed_folders>>
       ELSE /\ processed_folders' = processed_folders \cup {root}
            /\ stack' = <<Frame(root)>>
            /\ walk_result' = <<>>
    /\ UNCHANGED drive

\* list_drive_files(db_manager, root): clears the set, then walks.
list_drive_files(root) ==
    /\ stack = <<>>
    /\ processed_folders' = {root}
    /\ stack' = <<Frame(root)>>
    /\ walk_result' = <<>>
    /\ UNCHANGED drive

\* One iteration of the while loop up to results.get("files"): the request
\* returns a page, or raises and the loop breaks.
WalkFetchOk ==
    /\ stack # <<>>
    /\ Top.phase = "fetch"
    /\ LET r == ServerList(drive[Top.folder], WalkPageSize, Top.page_token)
       IN  stack' = SetTop([Top EXCEPT !.phase = "scan", !.items = r.files,
                                       !.next = r.nextPageToken])
    /\ UNCHANGED <<drive, processed_folders, walk_result>>

\* An error handler that throws away what the folder gathered so far
OnFetchErrorDropsGathered(frame) == [frame EXCEPT !.phase = "return", !.all_files = <<>>]

\* except HttpError / except Exception: the loop of this folder breaks and
\* the function goes on to return all_files as gathered so far.
OnFetchError(frame) == [frame EXCEPT !.phase = "return"]

WalkFetchError ==
    /\ stack # <<>>
    /\ Top.phase = "fetch"
    /\ stack' = SetTop(OnFetchError(Top))
    /\ UNCHANGED <<drive, processed_folders, walk_result>>

\* One iteration of the for loop of _scan_items.
WalkScanItem ==
    /\ stack # <<>>
    /\ Top.phase = "scan"
    /\ Top.items # <<>>
    /\ LET item == Head(Top.items)
           rest == [Top EXCEPT !.items = Tail(Top.items)]
       IN  IF mimeType(item) = FOLDER_MIME
           THEN IF ~AlreadyProcessed(item, processed_folders)
                THEN /\ Len(stack) < MaxDepth
                     /\ processed_folders' = processed_folders \cup {item}
                     /\ stack' = Append(SetTop(rest), Frame(item))
                ELSE /\ stack' = SetTop(rest)
                     /\ UNCHANGED processed_folders
           ELSE /\ stack' = SetTop([rest EXCEPT !.all_files =
                                 Append(@, [id |-> item, name |-> item])])
                /\ UNCHANGED processed_folders
    /\ UNCHANGED <<drive, walk_result>>

\* A loop that leaves after the first page whatever the token says
WalkFirstPageOnly ==
    /\ stack # <<>>
    /\ Top.phase = "scan"
    /\ Top.items = <<>>
    /\ stack' = SetTop([Top EXCEPT !.phase = "return"])
    /\ UNCHANGED <<drive, processed_folders, walk_result>>

\* page_token = results.get('nextPageToken'); break when it is None.
WalkNextPage ==
    /\ stack # <<>>
    /\ Top.phase = "scan"
    /\ Top.items = <<>>
    /\ stack' = SetTop(IF Top.next = 0
                       THEN [Top EXCEPT !.phase = "return"]
                       ELSE [Top EXCEPT !.phase = "fetch", !.page_token = Top.next])
    /\ UNCHANGED <<drive, processed_folders, walk_result>>

\* return all_files; the caller (_scan_items) extends its own list with it.
WalkReturn ==
    /\ stack # <<>>
    /\ Top.phase = "return"
    /\ IF Len(stack) = 1
       THEN /\ walk_result' = Top.all_files
            /\ stack' = <<>>
       ELSE /\ stack' = [SubSeq(stack, 1, Len(stack) - 1) EXCEPT ![Len(stack) - 1].all_files =
                            @ \o Top.all_files]
            /\ UNCHANGED walk_result
    /\ UNCHANGED <<drive, processed_folders>>

WalkStep == WalkFetchOk \/ WalkFetchError \/ WalkScanItem \/ WalkNextPage \/ WalkReturn

IdleWalk ==
    /\ drive = [f \in Folders |-> {}]
    /\ processed_folders = {}
    /\ stack = <<>>
    /\ walk_result = <<>>

(***************************************************************************)
(* list_files: DataBaseManager.list_files, the same code as                *)
(* GoogleDriveAPI.list_files.                                              *)
(***************************************************************************)
MaxListPageSize == 2     \* page_size arguments explored: 1..MaxListPageSize

NonFolderChildren(folder_id) == {c \in drive[folder_id] : mimeType(c) # FOLDER_MIME}

ListIdle ==
    [pc |-> "idle", folder |-> 0, page_size |-> 0, result |-> <<>>,
     nextPageToken |-> 0, raised |-> FALSE]

FileDict(id) == [id |-> id, name |-> id]

\* files(id, name) of one response, as the list of dicts the caller gets
ItemsOf(files) == [k \in 1..Len(files) |-> FileDict(files[k])]

\* The whole of list_files when the request answers: one request, no
\* pageToken; the nextPageToken of the answer is asked for in `fields` and
\* never read.
list_files(folder_id, page_size) ==
    LET results == ServerList(NonFolderChildren(folder_id), page_size, 1)
    IN  list_call' = [pc |-> "returned", folder |-> folder_id, page_size |-> page_size,
                      result |-> ItemsOf(results.files),
                      nextPageToken |-> results.nextPageToken, raised |-> FALSE]

\* The request raises (HttpError or anything else): [] is returned.
list_files_raises(folder_id, page_size) ==
    list_call' = [pc |-> "returned", folder |-> folder_id, page_size |-> page_size,
                  result |-> <<>>, nextPageToken |-> 0, raised |-> TRUE]

(***************************************************************************)
(* Transfer engine: DataBaseManager.download_file and the two steps that   *)
(* tenacity retries, _get_file_metadata and                                *)
(* _download_or_export_file_attempt.                                       *)
(***************************************************************************)
MaxChunks == 2       \* next_chunk calls that answer "not done yet" in one transfer

\* What one call to the remote API does: it answers, or raises.
Ok == [kind |-> "ok", status |-> 200]
HttpError(status) == [kind |-> "HttpError", status |-> status]
TimeoutErr == [kind |-> "TimeoutError", status |-> 0]
OtherErr == [kind |-> "Exception", status |-> 0]
HttpStatuses == {500, 503, 408, 429, 404, 403}
Failures == {HttpError(c) : c \in HttpStatuses} \cup {TimeoutErr, OtherErr}
Responses == {Ok} \cup Failures

\* is_retryable_http_error with 408 and 429 forgotten
is_retryable_http_error_5xx_only(exception) ==
    exception.kind = "HttpError" /\ exception.status >= 500

\* is_retryable_http_error: an HttpError with status 5xx, 408 or 429
is_retryable_http_error(exception) ==
    exception.kind = "HttpError"
        /\ (exception.status >= 500 \/ exception.status \in {408, 429})

\* retry=retry_if_exception_type((HttpError, TimeoutError)) of both decorators
retry_if_exception_type(exception) == exception.kind \in {"HttpError", "TimeoutError"}

\* stop=stop_after_attempt(3) and stop_after_attempt(2)
METADATA_STOP_AFTER_ATTEMPT == 3
DOWNLOAD_STOP_AFTER_ATTEMPT == 2

\* tenacity after an attempt raised `exception`: "retry" (sleep, call again)
\* or "raise" (reraise=True: the exception leaves the decorated function).
TenacityAfterRaise(exception, attempt_number, stop_after) ==
    IF retry_if_exception_type(exception) /\ attempt_number < stop_after
    THEN "retry" ELSE "raise"

\* A body of _get_file_metadata that re-raises every HttpError
get_file_metadata_body_reraise(r) == IF r.kind = "ok" THEN "return_metadata" ELSE "raise"

\* The body of _get_file_metadata for one answer of files().get().execute():
\* it returns the metadata, returns None, or raises.
get_file_metadata_body(r) ==
    IF r.kind = "ok" THEN "return_metadata"
    ELSE IF r.kind = "HttpError" /\ ~is_retryable_http_error(r) THEN "return_None"
    ELSE "raise"

\* The body of _download_or_export_file_attempt: every exception is re-raised.
download_or_export_body(r) == IF r.kind = "ok" THEN "return" ELSE "raise"

GOOGLE_DOCS_EXPORT_MIMETYPES ==
    [m \in {"application/vnd.google-apps.document",
            "application/vnd.google-apps.spreadsheet",
            "application/vnd.google-apps.presentation"} |->
        IF m = "application/vnd.google-apps.spreadsheet"
        THEN "application/vnd.openxmlformats-officedocument.spreadsheetml.sheet"
        ELSE "application/pdf"]

EXPORT_EXTENSIONS ==
    [m \in {"application/pdf",
            "application/vnd.openxmlformats-officedocument.spreadsheetml.sheet"} |->
        IF m = "application/pdf" THEN ".pdf" ELSE ".xlsx"]

MimeTypes == DOMAIN GOOGLE_DOCS_EXPORT_MIMETYPES \cup {"text/plain"}

\* File names as os.path.splitext sees them: (root, ext).
FileNames == {[base |-> b, ext |-> e] : b \in {"a", "b"}, e \in {"", ".txt", ".pdf"}}

\* GOOGLE_DOCS_EXPORT_MIMETYPES.get(original_mime_type)
export_mime_type_of(original_mime_type) ==
    IF original_mime_type \in DOMAIN GOOGLE_DOCS_EXPORT_MIMETYPES
    THEN GOOGLE_DOCS_EXPORT_MIMETYPES[original_mime_type] ELSE None

\* final_file_name of _prepare_file_download
final_file_name_of(file_name, original_mime_type) ==
    LET export == export_mime_type_of(original_mime_type)
    IN  IF export # None
        THEN [base |-> file_name.base,
              ext |-> IF export \in DOMAIN EXPORT_EXTENSIONS
                      THEN EXPORT_EXTENSIONS[export] ELSE ".bin"]
        ELSE file_name

NoName == [base |-> "", ext |-> ""]

XferIdle ==
    [pc |-> "idle", file_name |-> NoName, meta_log |-> <<>>, open_log |-> <<>>,
     export_mime_type |-> None, final_file_name |-> NoName, chunks |-> 0,
     result |-> None, file_on_disk |-> "absent"]

\* download_file(file_id, file_name, destination_path) is called.
download_file(file_name) ==
    /\ xfer.pc = "idle"
    /\ xfer' = [xfer EXCEPT !.pc = "metadata", !.file_name = file_name]

\* A download_file that hands a typed error value to its caller
XferReturnTransferError == [xfer EXCEPT !.pc = "returned", !.result = "TransferError"]

\* return None: what download_file does on each of its failure paths.
XferReturnNone == [xfer EXCEPT !.pc = "returned", !.result = None]

\* One attempt of _get_file_metadata under its decorator, and what
\* _prepare_file_download and download_file do with its outcome.
XferMetadataAttempt(r, mime) ==
    /\ xfer.pc = "metadata"
    /\ LET log == Append(xfer.meta_log, r)
           body == get_file_metadata_body(r)
       IN  xfer' =
             IF body = "return_metadata"
             THEN [xfer EXCEPT !.meta_log = log, !.pc = "ensure_dir",
                               !.export_mime_type = export_mime_type_of(mime),
                               !.final_file_name = final_file_name_of(xfer.file_name, mime)]
             ELSE IF body = "return_None"
             THEN [XferReturnNone EXCEPT !.meta_log = log]
             ELSE IF TenacityAfterRaise(r, Len(log), METADATA_STOP_AFTER_ATTEMPT) = "retry"
             THEN [xfer EXCEPT !.meta_log = log]
             ELSE [XferReturnNone EXCEPT !.meta_log = log]

\* _ensure_destination_directory: os.makedirs answers or raises OSError.
XferEnsureDirectory(ok) ==
    /\ xfer.pc = "ensure_dir"
    /\ xfer' = IF ok THEN [xfer EXCEPT !.pc = "open"] ELSE XferReturnNone

\* An open whose attempts are counted together with those of the metadata
\* fetch, against one budget
XferOpenAttemptSharedBudget(r) ==
    /\ xfer.pc = "open"
    /\ LET log == Append(xfer.open_log, r)
       IN  xfer' =
             IF download_or_export_body(r) = "return"
             THEN [xfer EXCEPT !.open_log = log, !.pc = "chunks"]
             ELSE IF TenacityAfterRaise(r, Len(xfer.meta_log) + Len(log),
                                        METADATA_STOP_AFTER_ATTEMPT + 1) = "retry"
             THEN [xfer EXCEPT !.open_log = log]
             ELSE [XferReturnNone EXCEPT !.open_log = log]

\* One attempt of _download_or_export_file_attempt under its decorator.
XferOpenAttempt(r) ==
    /\ xfer.pc = "open"
    /\ LET log == Append(xfer.open_log, r)
       IN  xfer' =
             IF download_or_export_body(r) = "return"
             THEN [xfer EXCEPT !.open_log = log, !.pc = "chunks"]
             ELSE IF TenacityAfterRaise(r, Len(log), DOWNLOAD_STOP_AFTER_ATTEMPT) = "retry"
             THEN [xfer EXCEPT !.open_log = log]
             ELSE [XferReturnNone EXCEPT !.open_log = log]

\* A chunk loop that appends each chunk to the destination file as it comes
XferChunkToDisk(r, done) ==
    /\ xfer.pc = "chunks"
    /\ xfer' =
         IF r.kind # "ok" THEN XferReturnNone
         ELSE IF done THEN [xfer EXCEPT !.pc = "save", !.chunks = @ + 1,
                                        !.file_on_disk = "partial"]
         ELSE [xfer EXCEPT !.chunks = @ + 1, !.file_on_disk = "partial"]
    /\ (r.kind = "ok" /\ ~done) => xfer.chunks < MaxChunks

\* One iteration of the loop of _download_chunks: next_chunk answers
\* (done or not) or raises, which fails the transfer.
XferChunk(r, done) ==
    /\ xfer.pc = "chunks"
    /\ xfer' =
         IF r.kind # "ok" THEN XferReturnNone
         ELSE IF done THEN [xfer EXCEPT !.pc = "save", !.chunks = @ + 1]
         ELSE [xfer EXCEPT !.chunks = @ + 1]
    /\ (r.kind = "ok" /\ ~done) => xfer.chunks < MaxChunks

\* _save_file and the return of download_file: the file is written and its
\* path returned, or the write raises after open() may have created it.
XferSave(outcome) ==
    /\ xfer.pc = "save"
    /\ xfer' =
         IF outcome = "written"
         THEN [xfer EXCEPT !.pc = "returned", !.result = xfer.final_file_name,
                           !.file_on_disk = "complete"]
         ELSE [XferReturnNone EXCEPT !.file_on_disk = outcome]

(***************************************************************************)
(* Batch orchestrator: process_batches, process_file_in_batch,             *)
(* download_file_with_timeout, process_batch_results, create_report_task,  *)
(* run_batch_crew, save_final_report (ReportGeneretor.py) and              *)
(* cleanup_temp_files (FolderManager.py).                                  *)
(***************************************************************************)
NumFiles == 3        \* len(files) of the run explored
BatchSize == 2       \* batch_size of the run explored

total_files == NumFiles
batch_size == BatchSize
FileIdx == 1..total_files

\* The files of the run: 1 is a Google Doc "a.txt" (exported as "a.pdf"),
\* 2 is a plain "a.pdf", the others are plain files all named "b.txt".
NameAt(j) == [base |-> IF j <= 2 THEN "a" ELSE "b", ext |-> IF j = 2 THEN ".pdf" ELSE ".txt"]
MimeAt(j) == IF j = 1 THEN "application/vnd.google-apps.document" ELSE "text/plain"

\* file_path of download_file: os.path.join(destination_path, final_file_name)
PathOf(j) == final_file_name_of(NameAt(j), MimeAt(j))
Paths == {PathOf(j) : j \in FileIdx}

\* batch_number = (i // batch_size) + 1, and the batch a file falls in
batch_number == (i \div batch_size) + 1
BatchNumberOf(j) == ((j - 1) \div batch_size) + 1

\* files[start_index:end_index], as indices
current_batch_files == {j \in FileIdx : i < j /\ j <= i + batch_size}

\* What a job hands to asyncio.gather.
Pending == [kind |-> "pending", task |-> 0, path |-> NoName]
ReturnedNone == [kind |-> "None", task |-> 0, path |-> NoName]
Raised == [kind |-> "exception", task |-> 0, path |-> NoName]
ReturnedTuple(j, path) == [kind |-> "tuple", task |-> j, path |-> path]

JobIdle ==
    [pc |-> "unscheduled", actual_downloaded_path |-> NoName, file_exists |-> FALSE,
     timed_out |-> FALSE, result |-> Pending]

JobReturn(j, r) == [job EXCEPT ![j].pc = "done", ![j].result = r]

ThreadReturned(j) == thread[j] \in {"saved", "failed_metadata", "failed_transfer", "failed_save"}

\* gather(*batch_coroutines, return_exceptions=True): the results in the
\* order of the batch, once every job has returned or raised.
gather_results ==
    LET ids == SortedSeq(current_batch_files)
    IN  [k \in 1..Len(ids) |-> job[ids[k]].result]

\* A wait that returns as soon as one job of the batch has ended
gather_first_completed == \E j \in current_batch_files : job[j].pc = "done"

\* await asyncio.gather(...) returns when every coroutine of the batch has
\* returned or raised.
gather_returns == \A j \in current_batch_files : job[j].pc = "done"

\* A timeout wrapped around the whole of process_file_in_batch
TimeoutScopeWholeJob == {"await_download", "await_exists", "exists_checked"}

\* The awaits of a job that asyncio.wait_for(..., timeout=timeout_seconds)
\* is wrapped around: the download alone.
TimeoutScope == {"await_download"}

\* A timeout handler that hands on the destination path all the same
TimedOutResultPath(j) == ReturnedTuple(j, PathOf(j))

\* except asyncio.TimeoutError: download_file_with_timeout returns None, and
\* process_file_in_batch returns None for a download that gave no path.
TimedOutResult(j) == ReturnedNone

NoBatchResult == [tasks |-> <<>>, files |-> <<>>]

\* process_batch_results that stops at the first exception instead of
\* skipping it
RECURSIVE process_batch_results_break(_)
process_batch_results_break(results) ==
    IF results = <<>> THEN NoBatchResult
    ELSE LET result == Head(results)
         IN  IF result.kind = "exception" THEN NoBatchResult
             ELSE LET rest == process_batch_results_break(Tail(results))
                  IN  IF result.kind = "tuple"
                      THEN [tasks |-> <<result.task>> \o rest.tasks,
                            files |-> <<result.path>> \o rest.files]
                      ELSE rest

\* process_batch_results that notes a staged-file entry for every result
\* that is not an exception, valid tuple or not
RECURSIVE process_batch_results_unpaired(_)
process_batch_results_unpaired(results) ==
    IF results = <<>> THEN NoBatchResult
    ELSE LET result == Head(results)
             rest == process_batch_results_unpaired(Tail(results))
         IN  IF result.kind = "tuple"
             THEN [tasks |-> <<result.task>> \o rest.tasks,
                   files |-> <<result.path>> \o rest.files]
             ELSE IF result.kind = "None"
             THEN [tasks |-> rest.tasks, files |-> <<result.path>> \o rest.files]
             ELSE rest

\* process_batch_results with _validate_and_collect_result: exceptions and
\* None are skipped, a (task, path) tuple is collected.
RECURSIVE process_batch_results(_)
process_batch_results(results) ==
    IF results = <<>> THEN NoBatchResult
    ELSE LET result == Head(results)
             rest == process_batch_results(Tail(results))
         IN  IF result.kind = "tuple"
             THEN [tasks |-> <<result.task>> \o rest.tasks,
                   files |-> <<result.path>> \o rest.files]
             ELSE rest

\* create_report_task: None without analysis tasks; otherwise what
\* create_reporting_tasks gives: a task list ("Task"), an empty list (None),
\* or an exception ("raise").
create_report_task(analysis_tasks, reporting) ==
    IF analysis_tasks = <<>> THEN None
    ELSE IF reporting = "tasks" THEN "Task"
    ELSE IF reporting = "empty" THEN None
    ELSE "raise"

\* The string run_batch_crew returns once kickoff has ended: str(result), a
\* placeholder for a None result, or the text of the caught exception.
crew_result_str(kickoff) ==
    IF kickoff = "text" THEN "text"
    ELSE IF kickoff = "empty_text" THEN ""
    ELSE IF kickoff = "None" THEN "RETORNO VAZIO/NULO DA CREW"
    ELSE "ERRO NA EXECUCAO DA CREW"

\* The fragments process_batches appends for a batch, placeholder for a
\* batch without analysis included
fragments_for_batch_with_placeholder(n, analysis_tasks, report_task, report_content) ==
    IF report_task # None
    THEN <<[batch |-> n, kind |-> IF report_content # "" THEN "result" ELSE "warning",
            content |-> report_content]>>
    ELSE IF analysis_tasks # <<>>
    THEN <<[batch |-> n, kind |-> "analysis_without_report", content |-> ""]>>
    ELSE <<[batch |-> n, kind |-> "placeholder", content |-> ""]>>

\* The fragments process_batches appends for a batch: one, or none when the
\* batch had no analysis task ("Se nem analise houve, nao adiciona nada").
fragments_for_batch(n, analysis_tasks, report_task, report_content) ==
    IF report_task # None
    THEN <<[batch |-> n, kind |-> IF report_content # "" THEN "result" ELSE "warning",
            content |-> report_content]>>
    ELSE IF analysis_tasks # <<>>
    THEN <<[batch |-> n, kind |-> "analysis_without_report", content |-> ""]>>
    ELSE <<>>

SeqToSet(q) == {q[k] : k \in 1..Len(q)}

\* The mutation of C40: the whole staging directory is emptied, as
\* cleanup_temp_folder does.
cleanup_whole_folder(file_paths) == [p \in Paths |-> 0]

\* cleanup_temp_files(file_paths, temp_dir): the staging directory after the
\* given paths are removed ...
cleanup_files(file_paths) == [p \in Paths |-> IF p \in SeqToSet(file_paths) THEN 0 ELSE disk[p]]
\* ... and whether the directory is still there (it is removed when empty).
cleanup_dir(file_paths) ==
    temp_dir_exists /\ \E p \in Paths : cleanup_files(file_paths)[p] # 0

\* The report file in report_dir, whether saving it printed an error, and
\* how many times save_final_report set out to create the file.
NoReport == [state |-> "absent", content |-> <<>>, error |-> FALSE, attempts |-> 0]

SaveOutcome(all_reports_content, io) ==
    IF io = "written"
    THEN [state |-> "written", content |-> all_reports_content, error |-> FALSE,
          attempts |-> 1]
    ELSE IF io = "write_fails"
    THEN [state |-> "partial", content |-> <<>>, error |-> TRUE, attempts |-> 1]
    ELSE [final_report EXCEPT !.error = TRUE, !.attempts = 1]

\* save_final_report that goes on to write without any fragment
save_final_report_always(all_reports_content, io) == SaveOutcome(all_reports_content, io)

\* save_final_report(all_reports_content, report_dir): the report file after
\* the call. Without content it returns at once and nothing is written;
\* otherwise makedirs, open() or write() may fail, which is printed and
\* swallowed.
save_final_report(all_reports_content, io) ==
    IF all_reports_content = <<>> THEN final_report
    ELSE SaveOutcome(all_reports_content, io)

\* written; makedirs or open() fails; write() fails after open() truncated the file
ReportIO == {"written", "open_fails", "write_fails"}

\* A loop that creates the coroutines of every remaining file at once
LoopAtLaunchAll(n, reports, io) ==
    IF n < total_files
    THEN /\ i' = n
         /\ job' = [j \in FileIdx |->
                      IF n < j /\ job[j].pc = "unscheduled"
                      THEN [job[j] EXCEPT !.pc = "created"] ELSE job[j]]
         /\ pb_pc' = "gather"
         /\ UNCHANGED final_report
    ELSE /\ pb_pc' = "done"
         /\ final_report' = save_final_report(reports, io)
         /\ UNCHANGED <<i, job>>

\* The for loop of process_batches at start index n: the coroutines of the
\* batch are created and handed to gather, or the loop ends, the final
\* report is saved and process_batches returns.
LoopAt(n, reports, io) ==
    IF n < total_files
    THEN /\ i' = n
         /\ job' = [j \in FileIdx |->
                      IF n < j /\ j <= n + batch_size
                      THEN [job[j] EXCEPT !.pc = "created"] ELSE job[j]]
         /\ pb_pc' = "gather"
         /\ UNCHANGED final_report
    ELSE /\ pb_pc' = "done"
         /\ final_report' = save_final_report(reports, io)
         /\ UNCHANGED <<i, job>>

\* process_batches(files, ...) is called.
process_batches(io) ==
    /\ pb_pc = "idle"
    /\ LoopAt(0, <<>>, io)
    /\ UNCHANGED <<thread, disk, temp_dir_exists, batch_analysis_tasks, batch_downloaded_files,
                   batch_report_task, all_final_reports_content, all_downloaded_files_ever>>

\* process_file_in_batch up to its first await: the file info is checked and
\* the download is handed to a thread. `info` is what the entry of `files`
\* is: a dict with id and name, a dict lacking one, or no dict at all
\* (file.get raises outside the try).
JobStart(j, info) ==
    /\ pb_pc = "gather"
    /\ job[j].pc = "created"
    /\ IF info = "dict"
       THEN /\ job' = [job EXCEPT ![j].pc = "await_download"]
            /\ thread' = [thread EXCEPT ![j] = "running"]
       ELSE /\ job' = JobReturn(j, IF info = "incomplete" THEN ReturnedNone ELSE Raised)
            /\ UNCHANGED thread
    /\ UNCHANGED <<pb_pc, i, disk, temp_dir_exists, batch_analysis_tasks, batch_downloaded_files,
                   batch_report_task, all_final_reports_content, all_downloaded_files_ever,
                   final_report>>

\* blocking_download_wrapper in its thread: download_file returns the path
\* after writing the file, or None (failure before the directory is made,
\* failure of the transfer, failure of the write after open() created the
\* file). The thread runs to its end whether or not its job still waits.
ThreadFinish(j, outcome) ==
    /\ thread[j] = "running"
    /\ thread' = [thread EXCEPT ![j] = outcome]
    /\ disk' = IF outcome \in {"saved", "failed_save"}
               THEN [disk EXCEPT ![PathOf(j)] = j] ELSE disk
    /\ temp_dir_exists' = (temp_dir_exists \/ outcome # "failed_metadata")
    /\ UNCHANGED <<pb_pc, i, job, batch_analysis_tasks, batch_downloaded_files,
                   batch_report_task, all_final_reports_content, all_downloaded_files_ever,
                   final_report>>

\* download_file_with_timeout returns what the thread returned, and
\* process_file_in_batch goes on to verify_file_existence or returns None.
JobDownloadReturns(j) ==
    /\ pb_pc = "gather"
    /\ job[j].pc = "await_download"
    /\ ThreadReturned(j)
    /\ job' = IF thread[j] = "saved"
              THEN [job EXCEPT ![j].pc = "await_exists",
                               ![j].actual_downloaded_path = PathOf(j)]
              ELSE JobReturn(j, ReturnedNone)
    /\ UNCHANGED <<pb_pc, i, thread, disk, temp_dir_exists, batch_analysis_tasks,
                   batch_downloaded_files, batch_report_task, all_final_reports_content,
                   all_downloaded_files_ever, final_report>>

\* asyncio.wait_for times out: the job returns None, the thread goes on.
JobTimeout(j) ==
    /\ pb_pc = "gather"
    /\ job[j].pc \in TimeoutScope
    /\ job[j].pc = "await_download" => thread[j] = "running"
    /\ job' = [JobReturn(j, TimedOutResult(j)) EXCEPT ![j].timed_out = TRUE]
    /\ UNCHANGED <<pb_pc, i, thread, disk, temp_dir_exists, batch_analysis_tasks,
                   batch_downloaded_files, batch_report_task, all_final_reports_content,
                   all_downloaded_files_ever, final_report>>

\* verify_file_existence: os.path.exists runs in a thread.
JobExistsChecked(j) ==
    /\ pb_pc = "gather"
    /\ job[j].pc = "await_exists"
    /\ job' = [job EXCEPT ![j].pc = "exists_checked",
                          ![j].file_exists = (disk[job[j].actual_downloaded_path] # 0)]
    /\ UNCHANGED <<pb_pc, i, thread, disk, temp_dir_exists, batch_analysis_tasks,
                   batch_downloaded_files, batch_report_task, all_final_reports_content,
                   all_downloaded_files_ever, final_report>>

\* The rest of process_file_in_batch: extraction, then
\* create_document_analysis_tasks gives a task list, an empty list, or
\* something raises and the except branch removes the downloaded file.
JobAnalyze(j, analysis) ==
    /\ pb_pc = "gather"
    /\ job[j].pc = "exists_checked"
    /\ LET path == job[j].actual_downloaded_path
       IN  IF ~job[j].file_exists
           THEN /\ job' = JobReturn(j, ReturnedNone)
                /\ UNCHANGED disk
           ELSE IF analysis = "tasks"
           THEN /\ job' = JobReturn(j, ReturnedTuple(j, path))
                /\ UNCHANGED disk
           ELSE IF analysis = "empty"
           THEN /\ job' = JobReturn(j, ReturnedNone)
                /\ UNCHANGED disk
           ELSE /\ job' = JobReturn(j, ReturnedNone)
                /\ disk' = [disk EXCEPT ![path] = 0]
    /\ UNCHANGED <<pb_pc, i, thread, temp_dir_exists, batch_analysis_tasks,
                   batch_downloaded_files, batch_report_task, all_final_reports_content,
                   all_downloaded_files_ever, final_report>>

\* The end of a batch in process_batches: the fragment is appended, the
\* files of the batch are cleaned up, and the loop goes on.
FinishBatch(analysis_tasks, downloaded_files, report_task, report_content, io) ==
    LET reports == all_final_reports_content \o
                     fragments_for_batch(batch_number, analysis_tasks, report_task, report_content)
    IN  /\ all_final_reports_content' = reports
        /\ disk' = cleanup_files(downloaded_files)
        /\ temp_dir_exists' = cleanup_dir(downloaded_files)
        /\ LoopAt(i + batch_size, reports, io)

\* gather returns: process_batch_results, create_report_task and
\* run_batch_crew up to its await of kickoff. Without any task
\* run_batch_crew returns None at once and the batch ends in the same step.
\* An exception of create_reporting_tasks or of Crew(...) is caught nowhere:
\* it leaves process_batches.
BatchCollect(reporting, crew, io) ==
    /\ pb_pc = "gather"
    /\ gather_returns
    /\ LET r == process_batch_results(gather_results)
           report_task == create_report_task(r.tasks, reporting)
       IN  /\ batch_analysis_tasks' = r.tasks
           /\ batch_downloaded_files' = r.files
           /\ all_downloaded_files_ever' = all_downloaded_files_ever \cup SeqToSet(r.files)
           /\ IF report_task = "raise"
              THEN /\ pb_pc' = "raised"
                   /\ UNCHANGED <<i, job, disk, temp_dir_exists, batch_report_task,
                                  all_final_reports_content, final_report>>
              ELSE IF r.tasks = <<>>
              THEN /\ batch_report_task' = report_task
                   /\ FinishBatch(r.tasks, r.files, report_task, None, io)
              ELSE IF crew = "raises"
              THEN /\ pb_pc' = "raised"
                   /\ batch_report_task' = report_task
                   /\ UNCHANGED <<i, job, disk, temp_dir_exists,
                                  all_final_reports_content, final_report>>
              ELSE /\ pb_pc' = "crew"
                   /\ batch_report_task' = report_task
                   /\ UNCHANGED <<i, job, disk, temp_dir_exists,
                                  all_final_reports_content, final_report>>
    /\ UNCHANGED thread

\* kickoff ends (a result, an empty string, None, or an exception that
\* run_batch_crew catches) and process_batches finishes the batch.
CrewDone(kickoff, io) ==
    /\ pb_pc = "crew"
    /\ FinishBatch(batch_analysis_tasks, batch_downloaded_files, batch_report_task,
                   crew_result_str(kickoff), io)
    /\ UNCHANGED <<thread, batch_analysis_tasks, batch_downloaded_files, batch_report_task,
                   all_downloaded_files_ever>>

IdleBatch ==
    /\ pb_pc = "idle"
    /\ i = 0
    /\ job = [j \in FileIdx |-> JobIdle]
    /\ thread = [j \in FileIdx |-> "none"]
    /\ disk = [p \in Paths |-> 0]
    /\ temp_dir_exists = TRUE
    /\ batch_analysis_tasks = <<>>
    /\ batch_downloaded_files = <<>>
    /\ batch_report_task = None
    /\ all_final_reports_content = <<>>
    /\ all_downloaded_files_ever = {}
    /\ final_report = NoReport

(***************************************************************************)
(* Report consolidator on its own: save_final_report(all_reports_content,  *)
(* report_dir) called repeatedly with one fragment list while time passes. *)
(***************************************************************************)
MaxFragments == 2    \* longest fragment list explored
MaxClock == 3        \* seconds the clock runs
MaxSaves == 2        \* calls of save_final_report that write

FragmentTexts == {"r1", "r2"}
FragmentLists == UNION {[1..n -> FragmentTexts] : n \in 0..MaxFragments}

\* "\n\n---\n\n".join(all_reports_content)
RECURSIVE JoinWith(_, _)
JoinWith(sep, q) ==
    IF Len(q) <= 1 THEN q ELSE <<Head(q), sep>> \o JoinWith(sep, Tail(q))

\* report_filename: the f-string holds no placeholder, the timestamp computed
\* on the line above is not part of the name.
report_filename(timestamp) == "FINAL_consolidated_drive_report.md"

\* What the three f.write calls put in the file: the title, the line with
\* the time of generation, the joined fragments.
report_file_text(all_reports_content, now) ==
    [title |-> "# Relatorio Consolidado de Analise de Documentos",
     generated |-> now,
     body |-> JoinWith("---", all_reports_content)]

\* open(report_filepath, "w") and the writes: the file of that name is
\* replaced.
WriteFile(files, name, text, complete) ==
    {f \in files : f.name # name} \cup {[name |-> name, text |-> text, complete |-> complete]}

\* No call of a pure function is in progress.
IdleCall == call = [fn |-> None]

\* No GeminiLLM object exists.
IdleLLM == llm = [pc |-> None]

\* No crawl was started.
IdleCrawl == crawl = [pc |-> None]

IdleTools == IdleLLM /\ IdleCrawl

IdleConsolidate ==
    consol = [all_reports_content |-> <<>>, now |-> 0, files |-> {}, saved_at |-> <<>>]

\* One second passes.
ConsolTick ==
    /\ consol.now < MaxClock
    /\ consol' = [consol EXCEPT !.now = @ + 1]

\* save_final_report(all_reports_content, report_dir).
ConsolSave(io) ==
    /\ Len(consol.saved_at) < MaxSaves
    /\ LET name == report_filename(consol.now)
       IN  consol' =
             IF consol.all_reports_content = <<>> \/ io = "open_fails" THEN consol
             ELSE IF io = "write_fails"
             THEN [consol EXCEPT !.files = WriteFile(@, name, <<>>, FALSE)]
             ELSE [consol EXCEPT
                     !.files = WriteFile(@, name,
                                 report_file_text(consol.all_reports_content, consol.now), TRUE),
                     !.saved_at = Append(@, consol.now)]

Init ==
    /\ IdleWalk
    /\ list_call = ListIdle
    /\ xfer = XferIdle
    /\ IdleBatch
    /\ IdleConsolidate
    /\ IdleTools
    /\ IdleCall

otherVars == <<walkVars, listVars, xferVars, consolVars, callVars, toolVars>>

Next ==
    \/ \E io \in ReportIO : process_batches(io) /\ UNCHANGED otherVars
    \/ \E j \in FileIdx, info \in {"dict", "incomplete", "not_a_dict"} :
          JobStart(j, info) /\ UNCHANGED otherVars
    \/ \E j \in FileIdx,
          outcome \in {"saved", "failed_metadata", "failed_transfer", "failed_save"} :
          ThreadFinish(j, outcome) /\ UNCHANGED otherVars
    \/ \E j \in FileIdx : JobDownloadReturns(j) /\ UNCHANGED otherVars
    \/ \E j \in FileIdx : JobTimeout(j) /\ UNCHANGED otherVars
    \/ \E j \in FileIdx : JobExistsChecked(j) /\ UNCHANGED otherVars
    \/ \E j \in FileIdx, analysis \in {"tasks", "empty", "raises"} :
          JobAnalyze(j, analysis) /\ UNCHANGED otherVars
    \/ \E reporting \in {"tasks", "empty", "raises"}, crew \in {"built", "raises"},
          io \in ReportIO : BatchCollect(reporting, crew, io) /\ UNCHANGED otherVars
    \/ \E kickoff \in {"text", "empty_text", "None", "raises"}, io \in ReportIO :
          CrewDone(kickoff, io) /\ UNCHANGED otherVars

Spec == Init /\ [][Next]_vars

InitTransfer ==
    /\ IdleWalk
    /\ list_call = ListIdle
    /\ xfer = XferIdle
    /\ IdleBatch
    /\ IdleConsolidate
    /\ IdleTools
    /\ IdleCall

NextTransfer ==
    \/ \E n \in FileNames : download_file(n) /\ UNCHANGED <<walkVars, listVars, batchVars, consolVars, callVars, toolVars>>
    \/ \E r \in Responses, m \in MimeTypes :
          XferMetadataAttempt(r, m) /\ UNCHANGED <<walkVars, listVars, batchVars, consolVars, callVars, toolVars>>
    \/ \E ok \in BOOLEAN : XferEnsureDirectory(ok) /\ UNCHANGED <<walkVars, listVars, batchVars, consolVars, callVars, toolVars>>
    \/ \E r \in Responses : XferOpenAttempt(r) /\ UNCHANGED <<walkVars, listVars, batchVars, consolVars, callVars, toolVars>>
    \/ \E r \in Responses, done \in BOOLEAN :
          XferChunk(r, done) /\ UNCHANGED <<walkVars, listVars, batchVars, consolVars, callVars, toolVars>>
    \/ \E outcome \in {"written", "absent", "partial"} :
          XferSave(outcome) /\ UNCHANGED <<walkVars, listVars, batchVars, consolVars, callVars, toolVars>>

SpecTransfer == InitTransfer /\ [][NextTransfer]_vars

InitList ==
    /\ drive \in Graphs
    /\ processed_folders = {}
    /\ stack = <<>>
    /\ walk_result = <<>>
    /\ list_call = ListIdle
    /\ xfer = XferIdle
    /\ IdleBatch
    /\ IdleConsolidate
    /\ IdleTools
    /\ IdleCall

NextList ==
    \/ \E f \in Folders, n \in 1..MaxListPageSize :
          list_files(f, n) /\ UNCHANGED <<walkVars, xferVars, batchVars, consolVars, callVars, toolVars>>
    \/ \E f \in Folders, n \in 1..MaxListPageSize :
          list_files_raises(f, n) /\ UNCHANGED <<walkVars, xferVars, batchVars, consolVars, callVars, toolVars>>

SpecList == InitList /\ [][NextList]_vars

(***************************************************************************)
(* The walker's specification.                                             *)
(***************************************************************************)
InitWalk ==
    /\ drive \in WalkGraphs
    /\ processed_folders = {}
    /\ stack = <<>>
    /\ walk_result = <<>>
    /\ list_call = ListIdle
    /\ xfer = XferIdle
    /\ IdleBatch
    /\ IdleConsolidate
    /\ IdleTools
    /\ IdleCall

NextWalk ==
    \/ list_files_recursively(TARGET_FOLDER_ID) /\ UNCHANGED <<listVars, xferVars, batchVars, consolVars, callVars, toolVars>>
    \/ list_drive_files(TARGET_FOLDER_ID) /\ UNCHANGED <<listVars, xferVars, batchVars, consolVars, callVars, toolVars>>
    \/ WalkFetchOk /\ UNCHANGED <<listVars, xferVars, batchVars, consolVars, callVars, toolVars>>
    \/ WalkFetchError /\ UNCHANGED <<listVars, xferVars, batchVars, consolVars, callVars, toolVars>>
    \/ WalkScanItem /\ UNCHANGED <<listVars, xferVars, batchVars, consolVars, callVars, toolVars>>
    \/ WalkNextPage /\ UNCHANGED <<listVars, xferVars, batchVars, consolVars, callVars, toolVars>>
    \/ WalkReturn /\ UNCHANGED <<listVars, xferVars, batchVars, consolVars, callVars, toolVars>>

\* The walk is sequential code: once called it runs until it returns.
SpecWalk ==
    InitWalk /\ [][NextWalk]_vars /\ WF_vars(WalkStep /\ UNCHANGED <<listVars, xferVars, batchVars, consolVars, callVars, toolVars>>)

(***************************************************************************)
(* GoogleDriveAPI.list_files_recursively (Authentication.py): the same     *)
(* loop as the walker above, with another treatment of _processed_folders  *)
(* on entry.                                                               *)
(***************************************************************************)
RecursionLimit == 4   \* frames before Python raises RecursionError, scaled down

\* Lines 103-115 on entry of a call for folder_id: the set is cleared unless
\* folder_id is already in it, then folder_id is added.
ApiProcessedOnEntry(folder_id, processed) ==
    IF folder_id \notin processed THEN {folder_id} ELSE processed \cup {folder_id}

\* A top-level call of drive_api.list_files_recursively(root).
GoogleDriveAPI_list_files_recursively(root) ==
    /\ stack = <<>>
    /\ processed_folders' = ApiProcessedOnEntry(root, processed_folders)
    /\ stack' = <<Frame(root)>>
    /\ walk_result' = <<>>
    /\ UNCHANGED drive

\* One iteration of the for loop over items (lines 134-153). The recursive
\* call past the recursion limit raises RecursionError, which the except
\* branch of the calling frame catches: that frame breaks out of its loop.
ApiScanItem ==
    /\ stack # <<>>
    /\ Top.phase = "scan"
    /\ Top.items # <<>>
    /\ LET item == Head(Top.items)
           rest == [Top EXCEPT !.items = Tail(Top.items)]
       IN  IF mimeType(item) = FOLDER_MIME
           THEN IF item \notin processed_folders
                THEN IF Len(stack) < RecursionLimit
                     THEN /\ processed_folders' = ApiProcessedOnEntry(item, processed_folders)
                          /\ stack' = Append(SetTop(rest), Frame(item))
                     ELSE /\ stack' = SetTop([rest EXCEPT !.phase = "return"])
                          /\ UNCHANGED processed_folders
                ELSE /\ stack' = SetTop(rest)
                     /\ UNCHANGED processed_folders
           ELSE /\ stack' = SetTop([rest EXCEPT !.all_files =
                                 Append(@, [id |-> item, name |-> item])])
                /\ UNCHANGED processed_folders
    /\ UNCHANGED <<drive, walk_result>>

NextApiWalk ==
    \/ GoogleDriveAPI_list_files_recursively(TARGET_FOLDER_ID)
          /\ UNCHANGED <<listVars, xferVars, batchVars, consolVars, callVars, toolVars>>
    \/ WalkFetchOk /\ UNCHANGED <<listVars, xferVars, batchVars, consolVars, callVars, toolVars>>
    \/ WalkFetchError /\ UNCHANGED <<listVars, xferVars, batchVars, consolVars, callVars, toolVars>>
    \/ ApiScanItem /\ UNCHANGED <<listVars, xferVars, batchVars, consolVars, callVars, toolVars>>
    \/ WalkNextPage /\ UNCHANGED <<listVars, xferVars, batchVars, consolVars, callVars, toolVars>>
    \/ WalkReturn /\ UNCHANGED <<listVars, xferVars, batchVars, consolVars, callVars, toolVars>>

SpecApiWalk == InitWalk /\ [][NextApiWalk]_vars

(***************************************************************************)
(* The consolidator's specification.                                       *)
(***************************************************************************)
InitConsolidate ==
    /\ IdleWalk
    /\ list_call = ListIdle
    /\ xfer = XferIdle
    /\ IdleBatch
    /\ consol \in [all_reports_content : FragmentLists, now : {0}, files : {{}},
                   saved_at : {<<>>}]
    /\ IdleCall
    /\ IdleTools

NextConsolidate ==
    \/ ConsolTick /\ UNCHANGED <<walkVars, listVars, xferVars, batchVars, callVars, toolVars>>
    \/ \E io \in ReportIO :
          ConsolSave(io) /\ UNCHANGED <<walkVars, listVars, xferVars, batchVars, callVars, toolVars>>

SpecConsolidate == InitConsolidate /\ [][NextConsolidate]_vars

(***************************************************************************)
(* process_batches called with a batch size that is not positive.          *)
(***************************************************************************)
\* range(0, stop, step) as the for statement evaluates it: step 0 raises
\* ValueError, a negative step from 0 up to a stop >= 0 is empty.
PyRange(stop, step) ==
    IF step = 0 THEN [raises |-> TRUE, values |-> <<>>]
    ELSE IF step < 0 THEN [raises |-> FALSE, values |-> <<>>]
    ELSE [raises |-> FALSE,
          values |-> [k \in 1..((stop + step - 1) \div step) |-> (k - 1) * step]]

\* process_batches(files, total_files, total_batches, bs, ...) with bs <= 0:
\* nothing checks bs; the for statement raises, or its range is empty and
\* the function goes on to save_final_report and returns.
process_batches_sized(bs, io) ==
    /\ pb_pc = "idle"
    /\ bs <= 0
    /\ PyRange(total_files, bs).values = <<>>
    /\ IF PyRange(total_files, bs).raises
       THEN /\ pb_pc' = "raised"
            /\ UNCHANGED final_report
       ELSE /\ pb_pc' = "done"
            /\ final_report' = save_final_report(all_final_reports_content, io)
    /\ UNCHANGED <<i, job, thread, disk, temp_dir_exists, batch_analysis_tasks,
                   batch_downloaded_files, batch_report_task, all_final_reports_content,
                   all_downloaded_files_ever>>

NextBatchSize ==
    \/ Next
    \/ \E bs \in {-1, 0}, io \in ReportIO : process_batches_sized(bs, io) /\ UNCHANGED otherVars

SpecBatchSize == Init /\ [][NextBatchSize]_vars

(***************************************************************************)
(* The batch orchestrator with its scheduling: a coroutine that can go on  *)
(* does go on (the event loop runs it to its next await or to its return,  *)
(* and the timer of wait_for fires when the thread has not returned). A    *)
(* download thread is under no such obligation.                            *)
(***************************************************************************)
JobStep(j) ==
    \/ \E info \in {"dict", "incomplete", "not_a_dict"} : JobStart(j, info)
    \/ JobDownloadReturns(j)
    \/ JobTimeout(j)
    \/ JobExistsChecked(j)
    \/ \E analysis \in {"tasks", "empty", "raises"} : JobAnalyze(j, analysis)

FairSpec ==
    Init /\ [][Next]_vars /\ \A j \in FileIdx : WF_vars(JobStep(j) /\ UNCHANGED otherVars)

(***************************************************************************)
(* Properties.                                                             *)
(***************************************************************************)

\* C1: a top-level walk terminates on every container graph, cyclic ones
\* included: whenever list_files_recursively is running it eventually
\* returns (the call stack empties).
C1_WalkTerminates == (stack # <<>>) ~> (stack = <<>>)

\* A walk that entered every container of a 3-cycle 1 -> 2 -> 3 -> 1 and
\* has returned.
C1_Witness ==
    /\ 2 \in drive[1] /\ 3 \in drive[2] /\ 1 \in drive[3]
    /\ processed_folders = Folders
    /\ stack = <<>>

\* The errors a retry is meant for: HTTP 5xx, 408, 429, or a timeout.
IsTransient(r) ==
    \/ r.kind = "TimeoutError"
    \/ r.kind = "HttpError" /\ (r.status >= 500 \/ r.status \in {408, 429})

\* Not-found, forbidden: errors no retry is meant for.
IsPermanent(r) == r.kind = "HttpError" /\ r.status \in {404, 403}

\* C4: when every attempt of the metadata fetch fails with a retryable
\* error, the fetch is attempted exactly 3 times, then download_file returns
\* None without a single attempt to open the transfer stream.
C4_MetadataRetryBound ==
    /\ (\A k \in 1..Len(xfer.meta_log) : IsTransient(xfer.meta_log[k])) =>
           Len(xfer.meta_log) <= 3
    /\ (/\ xfer.pc = "returned"
        /\ xfer.meta_log # <<>>
        /\ \A k \in 1..Len(xfer.meta_log) : IsTransient(xfer.meta_log[k])) =>
           /\ Len(xfer.meta_log) = 3
           /\ xfer.open_log = <<>>
           /\ xfer.result = None
           /\ xfer.file_on_disk = "absent"

\* A transfer that returned after 408, 429 and a timeout on the three
\* metadata attempts.
C4_Witness ==
    /\ xfer.pc = "returned"
    /\ xfer.meta_log = <<HttpError(408), HttpError(429), TimeoutErr>>

\* C5: when opening the transfer stream fails with a Permanent HTTP error
\* (404, 403), the open is attempted exactly once.
C5_PermanentOpenNotRetried ==
    \A k \in 1..Len(xfer.open_log) : IsPermanent(xfer.open_log[k]) => Len(xfer.open_log) = k

\* The batches of the run, and those process_batches has left behind
\* (fragment appended, cleanup run).
Batches == 1..BatchNumberOf(total_files)
BatchFinished(b) == pb_pc = "done" \/ (pb_pc \in {"gather", "crew", "raised"} /\ b < batch_number)
HasAnalysis(b) == \E j \in FileIdx : BatchNumberOf(j) = b /\ job[j].result.kind = "tuple"
FragmentsOf(b) ==
    {k \in 1..Len(all_final_reports_content) : all_final_reports_content[k].batch = b}

\* C2: once process_batches has returned, no staged file remains in the
\* staging directory, whatever the outcomes of the jobs were.
C2_NoStagedFileRemains == (pb_pc = "done") => \A p \in Paths : disk[p] = 0

\* Batch b has been through process_batch_results.
BatchCollected(b) ==
    b < batch_number \/ (b = batch_number /\ pb_pc \in {"crew", "raised", "done"})

\* C3: when a job of a batch raises, every other job of the batch has still
\* run to its end when gather returns, and each sibling that succeeded is
\* collected: its staged path is recorded in all_downloaded_files_ever and,
\* while the batch is the current one, its analysis task and its path are in
\* the result of the batch.
C3_BatchIsolation ==
    \A b \in Batches :
        (/\ BatchCollected(b)
         /\ \E j \in FileIdx : BatchNumberOf(j) = b /\ job[j].result.kind = "exception") =>
            \A j \in FileIdx :
                BatchNumberOf(j) = b =>
                    /\ job[j].pc = "done"
                    /\ job[j].result.kind = "tuple" =>
                         /\ job[j].result.path \in all_downloaded_files_ever
                         /\ (b = batch_number /\ pb_pc \in {"crew", "raised", "done"}) =>
                               /\ j \in SeqToSet(batch_analysis_tasks)
                               /\ job[j].result.path \in SeqToSet(batch_downloaded_files)

\* A batch collected with one job that raised and a sibling that succeeded.
C3_Witness ==
    /\ pb_pc = "crew"
    /\ \E j \in current_batch_files : job[j].result.kind = "exception"
    /\ \E j \in current_batch_files : job[j].result.kind = "tuple"

C9_LaterBatchesProcessed ==
    ~(pb_pc = "raised" /\ \E j \in FileIdx : job[j].pc = "unscheduled")

\* C10: a transfer thread that finishes after its job timed out leaves no
\* file in the staging directory once the cleanup of its batch has run, and
\* does not overwrite the file another job has downloaded and is using.
C10_LateResultDiscarded ==
    \A j \in FileIdx :
        (job[j].timed_out /\ thread[j] \in {"saved", "failed_save"}) =>
            /\ BatchFinished(BatchNumberOf(j)) => disk[PathOf(j)] # j
            /\ \A j2 \in FileIdx \ {j} :
                  (/\ job[j2].pc \in {"await_exists", "exists_checked"}
                   /\ job[j2].actual_downloaded_path = PathOf(j)) => disk[PathOf(j)] # j

\* C6: list_files returns the union of the children of all k pages, without
\* duplicates, and leaves no continuation token unconsumed.
C6_ListReturnsAllPages ==
    (list_call.pc = "returned" /\ ~list_call.raised) =>
        /\ {list_call.result[k] : k \in 1..Len(list_call.result)} =
              {FileDict(c) : c \in NonFolderChildren(list_call.folder)}
        /\ Len(list_call.result) = Cardinality(NonFolderChildren(list_call.folder))
        /\ list_call.nextPageToken = 0

\* C11: the list returned by one top-level walk contains each object id at
\* most once, whatever the graph (cycles, an object under several parents).
C11_EachObjectOnce ==
    \A a, b \in 1..Len(walk_result) :
        a # b => walk_result[a].id # walk_result[b].id

\* C12: each top-level walk owns its visited set, so the containers a
\* finished walk visited suppress nothing in the next one: a top-level call
\* that returns at once, after a walk of the same unchanged container
\* returned a non-empty list, returns that list again.
C12_SecondWalkSameList ==
    [][(stack = <<>> /\ stack' = <<>> /\ walk_result # <<>>) =>
           walk_result' = walk_result]_vars

\* C13: GoogleDriveAPI.list_files_recursively tracks the folders it visited:
\* a folder already entered during the current top-level call is never
\* entered again, so no folder is ever twice on the call stack.
C13_ApiNoReentry ==
    \A a, b \in 1..Len(stack) : a # b => stack[a].folder # stack[b].folder

\* C14: within a batch no two jobs for distinct objects write the same
\* destination path of the staging directory, equal names and names that
\* become equal by the export extension included.
C14_UniqueDestination ==
    \A j, j2 \in FileIdx :
        (/\ j # j2
         /\ BatchNumberOf(j) = BatchNumberOf(j2)
         /\ thread[j] \in {"saved", "failed_save"}
         /\ thread[j2] \in {"saved", "failed_save"}) => PathOf(j) # PathOf(j2)

\* C15: two calls of save_final_report with the same fragment list, made at
\* different times, leave two artifacts whose names differ by the timestamp
\* and whose content is identical: the second does not overwrite the first.
C15_TwoArtifactsSameContent ==
    LET complete == {f \in consol.files : f.complete}
    IN  Cardinality(SeqToSet(consol.saved_at)) >= 2 =>
            /\ Cardinality(complete) >= 2
            /\ \A f, g \in complete : f.text = g.text

\* C16: process_batches called with a batch size of 0 or less aborts with
\* an error before any job is launched, any file staged or any report
\* written. (A run that was given files and has left "idle" without ever
\* creating a job is a call with such a batch size.)
C16_NonPositiveBatchSizeAborts ==
    (/\ pb_pc # "idle"
     /\ total_files > 0
     /\ \A j \in FileIdx : job[j].pc = "unscheduled") =>
        /\ pb_pc = "raised"
        /\ \A p \in Paths : disk[p] = 0
        /\ final_report = NoReport

\* C17: the report task of a batch is built and run only when every job of
\* the batch has returned, raised or timed out: from the moment the results
\* of a batch are collected no job of it is pending or transferring.
C17_ReportingAfterBarrier ==
    \A j \in FileIdx : BatchCollected(BatchNumberOf(j)) => job[j].pc = "done"

\* The crew of a batch of two runs with its report task: one job succeeded,
\* the other failed without a timeout.
C17_Witness ==
    /\ pb_pc = "crew"
    /\ batch_report_task = "Task"
    /\ Cardinality(current_batch_files) = 2
    /\ \E j \in current_batch_files : job[j].result.kind = "tuple"
    /\ \E j \in current_batch_files : job[j].result.kind = "None" /\ ~job[j].timed_out

\* C18: a job whose transfer does not end within the timeout is a failed
\* job: it has returned None, whatever its thread does afterwards, and is
\* no analysis input of its batch; the batch is collected without waiting
\* for the thread, and a sibling that succeeded is collected as usual.
C18_TimeoutIsFailure ==
    \A j \in FileIdx :
        job[j].timed_out =>
            /\ job[j].pc = "done"
            /\ job[j].result = ReturnedNone
            /\ (BatchNumberOf(j) = batch_number /\ pb_pc \in {"crew", "raised", "done"}) =>
                  /\ j \notin SeqToSet(batch_analysis_tasks)
                  /\ \A j2 \in current_batch_files :
                        job[j2].result.kind = "tuple" => j2 \in SeqToSet(batch_analysis_tasks)

\* The crew of a batch runs while the thread of a timed-out job of the batch
\* is still transferring, with the task of a sibling that succeeded.
C18_Witness ==
    /\ pb_pc = "crew"
    /\ \E j \in current_batch_files : job[j].timed_out /\ thread[j] = "running"
    /\ \E j \in current_batch_files : job[j].result.kind = "tuple"

\* The states of a job: Pending is "created", Transferring "await_download",
\* Succeeded "await_exists", Analyzing "exists_checked"; a job that is
\* "done" is TimedOut, Analyzed or Failed.
TimedOut(j) == job[j].pc = "done" /\ job[j].timed_out
Analyzed(j) == job[j].pc = "done" /\ ~job[j].timed_out /\ job[j].result.kind = "tuple"
Failed(j) == job[j].pc = "done" /\ ~job[j].timed_out /\ job[j].result.kind \in {"None", "exception"}

JobTransitionOk(j) ==
    LET a == job[j].pc
        b == job'[j].pc
    IN  \/ job'[j] = job[j]
        \/ a = "unscheduled" /\ b = "created"
        \/ a = "created" /\ b = "await_download"
        \/ a = "created" /\ b = "done" /\ ~job'[j].timed_out
               /\ job'[j].result.kind \in {"None", "exception"}
        \/ a = "await_download" /\ b = "await_exists"
        \/ a = "await_download" /\ b = "done" /\ job'[j].result.kind = "None"
        \/ a = "await_exists" /\ b = "exists_checked"
        \/ a = "exists_checked" /\ b = "done" /\ ~job'[j].timed_out
               /\ job'[j].result.kind \in {"tuple", "None"}

C20_CleanupOnEveryExit ==
    \A j \in FileIdx :
        (/\ job[j].result.kind = "tuple"
         /\ \/ BatchFinished(BatchNumberOf(j))
            \/ pb_pc = "raised" /\ BatchNumberOf(j) = batch_number) =>
            disk[job[j].result.path] # j

\* The ids of the files gathered so far by the frames of a call stack, and
\* the ids of a returned list.
IdsOf(files) == {files[k].id : k \in 1..Len(files)}
Gathered(st) == UNION {IdsOf(st[k].all_files) : k \in 1..Len(st)}

\* C21: a failed page fetch of container C ends the traversal of C alone.
\* Nothing gathered so far is lost by any step of the walk, the failing
\* fetch included: what C gathered from its earlier pages is returned to its
\* parent and reaches the final result; and the parent frames are left as
\* they were, so that the parent goes on with its remaining items and pages.
C21_FetchErrorLocal ==
    [][(stack # <<>>) =>
          /\ IF stack' = <<>>
             THEN Gathered(stack) \subseteq IdsOf(walk_result')
             ELSE Gathered(stack) \subseteq Gathered(stack')
          /\ (Top.phase = "fetch" /\ Len(stack') = Len(stack) /\ Top'.phase = "return") =>
                /\ Top'.all_files = Top.all_files
                /\ SubSeq(stack', 1, Len(stack) - 1) = SubSeq(stack, 1, Len(stack) - 1)]_vars

\* Root 1 holds folders 2 and 3, folder 2 holds files 4 and 5 on two pages.
\* The walk has returned file 4 alone although it entered folder 3: the
\* second page of folder 2 failed, file 4 of its first page was kept, and
\* the root went on to its sibling 3.
C21_Witness ==
    /\ drive = <<{2, 3}, {4, 5}, {}>>
    /\ stack = <<>>
    /\ walk_result = <<[id |-> 4, name |-> 4]>>
    /\ processed_folders = {1, 2, 3}

\* The API failure a finished transfer ended on, if any: the last answer to
\* the metadata request when that was a failure, else the last answer to
\* the request that opens the stream.
LastOf(log) == IF log = <<>> THEN Ok ELSE log[Len(log)]
TransferFailure ==
    IF LastOf(xfer.meta_log).kind # "ok" THEN LastOf(xfer.meta_log) ELSE LastOf(xfer.open_log)

\* The typed error the claim expects for a failure.
TransferErrorOf(r) ==
    IF r.kind = "HttpError" /\ r.status = 404 THEN "NotFound"
    ELSE IF r.kind = "HttpError" /\ r.status = 403 THEN "Forbidden"
    ELSE IF r.kind = "HttpError" THEN "Transient-exhausted"
    ELSE IF r.kind = "TimeoutError" THEN "Timeout"
    ELSE "Unexpected"

C24_PermanentMetadataOnce ==
    \A k \in 1..Len(xfer.meta_log) :
        IsPermanent(xfer.meta_log[k]) =>
            /\ Len(xfer.meta_log) = k
            /\ xfer.pc = "returned"
            /\ xfer.result = None
            /\ xfer.open_log = <<>>
            /\ xfer.file_on_disk = "absent"

\* download_file has returned after a single metadata request answered 403.
C24_Witness ==
    /\ xfer.pc = "returned"
    /\ xfer.meta_log = <<HttpError(403)>>
    /\ xfer.open_log = <<>>

(***************************************************************************)
(* The partition into batches, as a function of the list and the batch     *)
(* size: the loop head of process_batches and the comprehension of Main.   *)
(***************************************************************************)
MaxListLen == 4      \* longest object list partitioned
MaxBatchSize == 3    \* largest batch size tried

ObjectIds == {1, 2}
ObjectLists == UNION {[1..n -> ObjectIds] : n \in 0..MaxListLen}

Min(a, b) == IF a <= b THEN a ELSE b

\* An index of a slice as Python normalises it for a sequence of length n:
\* a negative index counts from the end, and both ends are clamped.
PySliceIndex(k, n) ==
    IF k < 0 THEN (IF n + k < 0 THEN 0 ELSE n + k) ELSE Min(k, n)

\* s[start:stop]
PySlice(s, start, stop) ==
    SubSeq(s, PySliceIndex(start, Len(s)) + 1, PySliceIndex(stop, Len(s)))

\* The mutation of C23: the slice runs one element into the next batch.
BatchSliceOverlapping(files, start_index, end_index) ==
    PySlice(files, start_index, end_index + 1)

\* current_batch_files = files[start_index:end_index]
BatchSlice(files, start_index, end_index) == PySlice(files, start_index, end_index)

\* process_batches is entered with total_files = len(file_ids_and_names).
\* One iteration of "for i in range(0, total_files, batch_size)".
PartitionIteration ==
    /\ call.fn = "process_batches"
    /\ ~call.done
    /\ LET total == Len(call.files)
           range == PyRange(total, call.batch_size).values
       IN  /\ call.k < Len(range)
           /\ LET start_index == range[call.k + 1]
                  end_index == Min(start_index + call.batch_size, total)
              IN  call' = [call EXCEPT
                             !.k = @ + 1,
                             !.batches = Append(@, BatchSlice(call.files, start_index, end_index))]

\* The range is exhausted.
PartitionEnd ==
    /\ call.fn = "process_batches"
    /\ ~call.done
    /\ call.k = Len(PyRange(Len(call.files), call.batch_size).values)
    /\ call' = [call EXCEPT !.done = TRUE]

\* file_batches = [all_files_recursive[i:i + BATCH_SIZE] for i in range(0, len(...), BATCH_SIZE)]
file_batches ==
    /\ call.fn = "file_batches"
    /\ ~call.done
    /\ LET range == PyRange(Len(call.files), call.batch_size).values
       IN  call' = [call EXCEPT
                      !.k = Len(range),
                      !.batches = [n \in 1..Len(range) |->
                                     BatchSlice(call.files, range[n], range[n] + call.batch_size)],
                      !.done = TRUE]

InitPartition ==
    /\ IdleWalk
    /\ list_call = ListIdle
    /\ xfer = XferIdle
    /\ IdleBatch
    /\ IdleConsolidate
    /\ IdleTools
    /\ call \in [fn : {"process_batches", "file_batches"}, files : ObjectLists,
                 batch_size : 1..MaxBatchSize, k : {0}, batches : {<<>>}, done : {FALSE}]

NextPartition ==
    \/ PartitionIteration /\ UNCHANGED <<walkVars, listVars, xferVars, batchVars, consolVars, toolVars>>
    \/ PartitionEnd /\ UNCHANGED <<walkVars, listVars, xferVars, batchVars, consolVars, toolVars>>
    \/ file_batches /\ UNCHANGED <<walkVars, listVars, xferVars, batchVars, consolVars, toolVars>>

SpecPartition == InitPartition /\ [][NextPartition]_vars

RECURSIVE Flatten(_)
Flatten(qq) == IF qq = <<>> THEN <<>> ELSE Head(qq) \o Flatten(Tail(qq))

\* The position in the input list of element q of batch b.
PositionOf(batches, b, q) == Len(Flatten(SubSeq(batches, 1, b - 1))) + q

\* C23: for any object list and any positive batch size, once the
\* partition is complete the batches concatenated in order equal the input
\* list, every batch but the last has exactly batch_size objects (and the
\* last has between 1 and batch_size), and every position of the input list
\* is the position of exactly one element of one batch.
C23_Partition ==
    (call.fn \in {"process_batches", "file_batches"} /\ call.done) =>
        /\ Flatten(call.batches) = call.files
        /\ \A b \in 1..Len(call.batches) :
              /\ b < Len(call.batches) => Len(call.batches[b]) = call.batch_size
              /\ Len(call.batches[b]) \in 1..call.batch_size
        /\ \A p \in 1..Len(call.files) :
              Cardinality({bq \in {<<b, q>> : b \in 1..Len(call.batches), q \in 1..MaxBatchSize + 1} :
                              /\ bq[2] <= Len(call.batches[bq[1]])
                              /\ PositionOf(call.batches, bq[1], bq[2]) = p}) = 1

C23_Witness ==
    /\ call.fn = "process_batches"
    /\ call.done
    /\ call.files = <<1, 2, 1>>
    /\ call.batch_size = 2
    /\ call.batches = <<<<1, 2>>, <<1>>>>


(***************************************************************************)
(* The truncation of the extracted text to a budget of characters.         *)
(***************************************************************************)
MaxTextLen == 4      \* longest extracted text
MaxBudget == 4       \* largest max_chars tried

TextChars == {"x", "y"}
Texts == UNION {[1..n -> TextChars] : n \in 0..MaxTextLen}

\* truncation_warning, scaled to two characters that no text holds (the
\* warning of the source is 59 characters long).
truncation_warning == <<"[", "]">>

\* The lines under "Truncamento simples por caracteres": the text is cut to
\* max_chars, cut again to max_chars - len(truncation_warning) - 1, an index
\* that is negative for a small max_chars and then counts from the end, and
\* the warning is appended.
truncate_simple(file_content, max_chars) ==
    IF Len(file_content) > max_chars
    THEN LET cut == PySlice(file_content, 0, max_chars)
             fitted == IF Len(cut) + Len(truncation_warning) > max_chars
                       THEN PySlice(cut, 0, max_chars - Len(truncation_warning) - 1)
                       ELSE cut
         IN  fitted \o truncation_warning
    ELSE file_content

\* extract_and_truncate_content_simple returns for a file whose extraction
\* gave call.text.
extract_and_truncate_content_simple ==
    /\ call.fn = "extract_and_truncate_content_simple"
    /\ ~call.done
    /\ call' = [call EXCEPT !.result = truncate_simple(call.text, call.max_chars),
                            !.done = TRUE]

InitTruncate ==
    /\ IdleWalk
    /\ list_call = ListIdle
    /\ xfer = XferIdle
    /\ IdleBatch
    /\ IdleConsolidate
    /\ IdleTools
    /\ call \in [fn : {"extract_and_truncate_content_simple"}, text : Texts,
                 max_chars : 1..MaxBudget, result : {<<>>}, done : {FALSE}]

NextTruncate ==
    extract_and_truncate_content_simple
        /\ UNCHANGED <<walkVars, listVars, xferVars, batchVars, consolVars, toolVars>>

SpecTruncate == InitTruncate /\ [][NextTruncate]_vars

EndsWithMarker(content) ==
    /\ Len(content) >= Len(truncation_warning)
    /\ SubSeq(content, Len(content) - Len(truncation_warning) + 1, Len(content))
          = truncation_warning

\* C29: for any extracted text and any budget max_chars, the content
\* returned for submission has at most max_chars characters, ends with the
\* truncation marker exactly when the text exceeded the budget, and is the
\* unchanged text otherwise.
C29_WithinBudget ==
    (call.fn = "extract_and_truncate_content_simple" /\ call.done) =>
        /\ Len(call.result) <= call.max_chars
        /\ EndsWithMarker(call.result) <=> Len(call.text) > call.max_chars
        /\ Len(call.text) <= call.max_chars => call.result = call.text


\* C25: batches run one at a time in input order. A job is launched only
\* when every earlier batch is finished: the batch's fragment, if it has
\* one to give, is appended (its reporting call has returned) and the files
\* its jobs handed over are removed from the staging directory. The
\* fragments are in ascending order of batch number.
C25_BatchesSequential ==
    /\ \A j \in FileIdx : job[j].pc # "unscheduled" =>
          \A b \in 1..(BatchNumberOf(j) - 1) :
              /\ BatchFinished(b)
              /\ \A k \in FileIdx : BatchNumberOf(k) = b => job[k].pc = "done"
              /\ HasAnalysis(b) => FragmentsOf(b) # {}
              /\ \A k \in FileIdx :
                    (BatchNumberOf(k) = b /\ job[k].result.kind = "tuple") =>
                        disk[job[k].result.path] # k
    /\ \A k \in 1..(Len(all_final_reports_content) - 1) :
          all_final_reports_content[k].batch < all_final_reports_content[k + 1].batch

C25_Witness ==
    /\ pb_pc = "done"
    /\ \A j \in FileIdx : job[j].pc = "done"
    /\ Len(all_final_reports_content) = 2
    /\ all_final_reports_content[1].batch = 1
    /\ all_final_reports_content[2].batch = 2


\* report_task.context = analysis_tasks: the context of the report task of
\* the batch in hand, when there is one.
report_task_context == IF batch_report_task # None THEN batch_analysis_tasks ELSE <<>>

\* The crew of the batch in hand runs with a report task among its tasks.
ReportingInvoked == pb_pc = "crew" /\ batch_report_task # None

\* C26: once the results of a batch are collected (its crew runs, or an
\* exception has ended the run), the Reporting Stage is invoked exactly
\* when the batch has at least one analysis task, and the context of the
\* report task is then exactly the tasks that the jobs of this batch
\* returned.
C26_ReportingIffAnalysis ==
    (pb_pc \in {"crew", "raised"}) =>
        /\ ReportingInvoked <=> HasAnalysis(batch_number)
        /\ ReportingInvoked =>
              SeqToSet(report_task_context) =
                 {j \in current_batch_files : job[j].result.kind = "tuple"}


\* The worker threads in which blocking_download_wrapper is executing
\* download_file, whether or not their job still waits for them.
RunningTransfers == {j \in FileIdx : thread[j] = "running"}

\* C27: at every moment of a run at most batch_size transfer calls execute
\* at once, the threads of jobs that already timed out included.
C27_BoundedTransfers == Cardinality(RunningTransfers) <= batch_size


\* C28: when saving the final report fails, save_final_report
\* either makes a second attempt or the failure leaves process_batches as
\* an exception; it does not return normally after one failed attempt.
C28_RetryOrFailLoudly ==
    final_report.error => (final_report.attempts = 2 \/ pb_pc = "raised")


(***************************************************************************)
(* The walk of a tree without listing errors: every container but the root *)
(* has one parent, every file has one parent, no request raises, and each  *)
(* top-level walk starts with an empty set of processed folders (the first *)
(* call on a new DataBaseManager, or any call through list_drive_files).   *)
(***************************************************************************)
ParentsOf(g, x) == {f \in Folders : x \in g[f]}

TreeGraphs ==
    {g \in WalkGraphs :
        /\ ParentsOf(g, TARGET_FOLDER_ID) = {}
        /\ \A x \in Items : Cardinality(ParentsOf(g, x)) <= 1}

InitTreeWalk ==
    /\ drive \in TreeGraphs
    /\ processed_folders = {}
    /\ stack = <<>>
    /\ walk_result = <<>>
    /\ list_call = ListIdle
    /\ xfer = XferIdle
    /\ IdleBatch
    /\ IdleConsolidate
    /\ IdleTools
    /\ IdleCall

NextTreeWalk ==
    \/ /\ processed_folders = {}
       /\ list_files_recursively(TARGET_FOLDER_ID)
       /\ UNCHANGED <<listVars, xferVars, batchVars, consolVars, callVars, toolVars>>
    \/ list_drive_files(TARGET_FOLDER_ID) /\ UNCHANGED <<listVars, xferVars, batchVars, consolVars, callVars, toolVars>>
    \/ WalkFetchOk /\ UNCHANGED <<listVars, xferVars, batchVars, consolVars, callVars, toolVars>>
    \/ WalkScanItem /\ UNCHANGED <<listVars, xferVars, batchVars, consolVars, callVars, toolVars>>
    \/ WalkNextPage /\ UNCHANGED <<listVars, xferVars, batchVars, consolVars, callVars, toolVars>>
    \/ WalkReturn /\ UNCHANGED <<listVars, xferVars, batchVars, consolVars, callVars, toolVars>>

SpecTreeWalk == InitTreeWalk /\ [][NextTreeWalk]_vars

\* The files located under `root` at any depth.
FilesUnder(g, root) == {x \in DriveFiles : \E f \in ReachFrom(g, {root}) : x \in g[f]}

C31_EnteredAtMostOnce ==
    [][/\ (stack # <<>>) => processed_folders \subseteq processed_folders'
       /\ (Len(stack') > Len(stack)) =>
             /\ Top'.folder \in processed_folders'
             /\ (stack # <<>>) => Top'.folder \notin processed_folders
             /\ \A k \in 1..Len(stack) : stack[k].folder # Top'.folder]_vars

C31_Witness ==
    /\ drive = <<{2, 3}, {3}, {1}>>
    /\ stack = <<>>
    /\ processed_folders = Folders

\* C32: the attempts to open the transfer stream are counted on their own.
\* Whatever the number of metadata attempts before (1 to 3), when every
\* attempt to open the stream fails with a retryable error the open is
\* attempted exactly 2 times and download_file returns None; one transfer
\* makes at most 3 metadata attempts and 2 open attempts, 5 in all.
C32_OpenBudgetIndependent ==
    /\ Len(xfer.meta_log) <= 3
    /\ Len(xfer.open_log) <= 2
    /\ Len(xfer.meta_log) + Len(xfer.open_log) <= 3 + 2
    /\ xfer.open_log # <<>> => Len(xfer.meta_log) \in 1..3
    /\ (/\ xfer.pc \in {"returned", "chunks", "save"}
        /\ xfer.open_log # <<>>
        /\ \A k \in 1..Len(xfer.open_log) : IsTransient(xfer.open_log[k])) =>
           /\ Len(xfer.open_log) = 2
           /\ xfer.pc = "returned"
           /\ xfer.result = None

\* Three metadata attempts, the third answered, then two failed opens.
C32_Witness ==
    /\ xfer.pc = "returned"
    /\ xfer.meta_log = <<HttpError(500), TimeoutErr, Ok>>
    /\ xfer.open_log = <<HttpError(503), HttpError(429)>>

\* The batch whose results batch_analysis_tasks and batch_downloaded_files
\* hold: the batch in hand once gather has returned, the one before while
\* the jobs of the batch in hand still run, none before the first collect.
LastCollectedBatch ==
    IF pb_pc \in {"crew", "raised", "done"} THEN batch_number
    ELSE IF pb_pc = "gather" THEN batch_number - 1
    ELSE 0

\* C33: the analysis inputs of a batch come from exactly the jobs of that
\* batch that succeeded (returned a task and a path): a job that failed,
\* timed out or raised adds neither a task nor a staged path, entry k of the
\* staged paths is the path of the job of task k, and the two lists have
\* the same length.
C33_InputsFromSucceededJobs ==
    /\ Len(batch_analysis_tasks) = Len(batch_downloaded_files)
    /\ SeqToSet(batch_analysis_tasks) =
          {j \in FileIdx : BatchNumberOf(j) = LastCollectedBatch /\ Analyzed(j)}
    /\ \A k \in 1..Len(batch_analysis_tasks) :
          /\ batch_downloaded_files[k] = job[batch_analysis_tasks[k]].result.path
          /\ ~Failed(batch_analysis_tasks[k])
          /\ ~TimedOut(batch_analysis_tasks[k])
          /\ job[batch_analysis_tasks[k]].result.kind # "exception"
    /\ \A k, m \in 1..Len(batch_analysis_tasks) :
          k # m => batch_analysis_tasks[k] # batch_analysis_tasks[m]

\* The crew of batch 1 runs on the task of file 1 alone, while the job of
\* file 2 has timed out.
C33_Witness ==
    /\ pb_pc = "crew"
    /\ batch_number = 1
    /\ batch_analysis_tasks = <<1>>
    /\ TimedOut(2)

\* C34: while the downstream processing of a batch is pending or running
\* (its jobs are gathered, its crew runs), no step removes the staged file
\* of a job of the batch that succeeded; the file goes only in the step
\* that ends the batch.
C34_StagedFileKeptUntilBatchEnds ==
    [][\A j \in FileIdx :
          (/\ pb_pc \in {"gather", "crew"}
           /\ BatchNumberOf(j) = batch_number
           /\ Analyzed(j)
           /\ disk[job[j].result.path] # 0
           /\ disk'[job[j].result.path] = 0) =>
              (pb_pc' = "done" \/ batch_number' # batch_number)]_vars

\* C35: download_file touches the destination file only in _save_file,
\* after the metadata, the stream and every chunk were received. A transfer
\* that ends at the metadata fetch, at the directory, at the open or on a
\* chunk returns None and has created or modified no file.
C35_FileWrittenOnlyAfterChunks ==
    [][/\ (xfer'.file_on_disk # xfer.file_on_disk) =>
             /\ xfer.pc = "save"
             /\ LastOf(xfer.meta_log) = Ok
             /\ LastOf(xfer.open_log) = Ok
             /\ xfer.chunks >= 1
       /\ (xfer.pc \in {"metadata", "ensure_dir", "open", "chunks"} /\ xfer'.pc = "returned") =>
             /\ xfer'.result = None
             /\ xfer'.file_on_disk = "absent"]_vars

\* A transfer that received its chunks up to the bound and then failed on
\* a chunk or at the save, leaving no file.
C35_Witness ==
    /\ xfer.pc = "returned"
    /\ LastOf(xfer.open_log) = Ok
    /\ xfer.chunks = MaxChunks
    /\ xfer.file_on_disk = "absent"
    /\ xfer.result = None

(***************************************************************************)
(* _prepare_file_download as a function of the file name and the content   *)
(* type that the metadata gives, with names as strings of characters.      *)
(***************************************************************************)
MaxNameLen == 3      \* longest file name resolved

NameChars == {"n", ".", "p"}
NameStrings == UNION {[1..n -> NameChars] : n \in 1..MaxNameLen}

\* The extensions of EXPORT_EXTENSIONS and the fallback, as strings scaled
\* to a dot and one letter: ".pdf", ".xlsx", ".bin".
ExtensionString(extension) ==
    IF extension = ".pdf" THEN <<".", "p">>
    ELSE IF extension = ".xlsx" THEN <<".", "x">>
    ELSE <<".", "b">>

\* os.path.splitext(p) for a name without separators: the extension starts
\* at the last dot, unless only dots come before it.
splitext(p) ==
    LET dots == {k \in 1..Len(p) : p[k] = "."}
        dotIndex == IF dots = {} THEN 0 ELSE CHOOSE k \in dots : \A m \in dots : m <= k
    IN  IF dotIndex > 0 /\ \E k \in 1..(dotIndex - 1) : p[k] # "."
        THEN [root |-> SubSeq(p, 1, dotIndex - 1), ext |-> SubSeq(p, dotIndex, Len(p))]
        ELSE [root |-> p, ext |-> <<>>]

\* A final name that gets the export extension added after the whole name
prepare_final_file_name_appended(file_name, original_mime_type) ==
    LET export_mime_type == export_mime_type_of(original_mime_type)
    IN  IF export_mime_type # None
        THEN file_name \o ExtensionString(IF export_mime_type \in DOMAIN EXPORT_EXTENSIONS
                                          THEN EXPORT_EXTENSIONS[export_mime_type] ELSE ".bin")
        ELSE file_name

\* base_name, _ = os.path.splitext(file_name); final_file_name is
\* base_name + extension for an export, file_name otherwise.
prepare_final_file_name(file_name, original_mime_type) ==
    LET export_mime_type == export_mime_type_of(original_mime_type)
    IN  IF export_mime_type # None
        THEN splitext(file_name).root \o
               ExtensionString(IF export_mime_type \in DOMAIN EXPORT_EXTENSIONS
                               THEN EXPORT_EXTENSIONS[export_mime_type] ELSE ".bin")
        ELSE file_name

ResolveMimeTypes == MimeTypes \cup {"application/pdf"}

\* _prepare_file_download returns (original_mime_type, export_mime_type,
\* final_file_name) for metadata that was fetched.
prepare_file_download ==
    /\ call.fn = "_prepare_file_download"
    /\ ~call.done
    /\ call' = [call EXCEPT
                  !.export_mime_type = export_mime_type_of(call.mimeType),
                  !.final_file_name = prepare_final_file_name(call.file_name, call.mimeType),
                  !.done = TRUE]

InitResolve ==
    /\ IdleWalk
    /\ list_call = ListIdle
    /\ xfer = XferIdle
    /\ IdleBatch
    /\ IdleConsolidate
    /\ IdleTools
    /\ call \in [fn : {"_prepare_file_download"}, file_name : NameStrings,
                 mimeType : ResolveMimeTypes, export_mime_type : {None},
                 final_file_name : {<<>>}, done : {FALSE}]

NextResolve ==
    prepare_file_download /\ UNCHANGED <<walkVars, listVars, xferVars, batchVars, consolVars, toolVars>>

SpecResolve == InitResolve /\ [][NextResolve]_vars

\* The name with everything from its last dot on replaced by `ext`.
WithExtension(name, ext) == splitext(name).root \o ext

\* C36: for a Google document or presentation the export format is PDF and
\* the final name is the name with its extension replaced by ".pdf"; for a
\* Google spreadsheet they are the xlsx format and ".xlsx"; for every other
\* content type there is no export format and the name is unchanged.
C36_ResolveExportFormat ==
    (call.fn = "_prepare_file_download" /\ call.done) =>
        IF call.mimeType \in {"application/vnd.google-apps.document",
                              "application/vnd.google-apps.presentation"}
        THEN /\ call.export_mime_type = "application/pdf"
             /\ call.final_file_name = WithExtension(call.file_name, <<".", "p">>)
        ELSE IF call.mimeType = "application/vnd.google-apps.spreadsheet"
        THEN /\ call.export_mime_type =
                   "application/vnd.openxmlformats-officedocument.spreadsheetml.sheet"
             /\ call.final_file_name = WithExtension(call.file_name, <<".", "x">>)
        ELSE /\ call.export_mime_type = None
             /\ call.final_file_name = call.file_name

\* The spreadsheet "n.p" is resolved to "n.x".
C36_Witness ==
    /\ call.fn = "_prepare_file_download"
    /\ call.done
    /\ call.mimeType = "application/vnd.google-apps.spreadsheet"
    /\ call.file_name = <<"n", ".", "p">>
    /\ call.final_file_name = <<"n", ".", "x">>

(***************************************************************************)
(* GeminiLLM (LLMManager.py): the requests-per-minute limiter around       *)
(* chat_llm.invoke.  Time is counted in ticks; the window of 60 seconds    *)
(* and the limit of 15 requests are scaled down to RateWindow ticks and    *)
(* limite_requisicoes_por_minuto requests, the comparisons are the code's. *)
(***************************************************************************)
MaxTime == 5
MaxRequests == 4

\* The 60 of verificar_limite_de_taxa and atualizar_contador_requisicoes,
\* in ticks.
RateWindow == 3

\* self.limite_requisicoes_por_minuto = 15, scaled.
limite_requisicoes_por_minuto == 2

\* GeminiLLM.__init__: the counters at construction time.
InitLLM ==
    /\ IdleWalk
    /\ list_call = ListIdle
    /\ xfer = XferIdle
    /\ IdleBatch
    /\ IdleConsolidate
    /\ IdleCall
    /\ IdleCrawl
    /\ llm = [pc |-> "idle", now |-> 0, inicio_do_minuto |-> 0,
              requests_feitos_no_minuto |-> 0, sent |-> <<>>, result |-> <<>>]

\* verificar_limite_de_taxa(): the time to wait and the object after the
\* call.  In ticks 60.0 - tempo_decorrido is at least 1 where it is
\* returned, so max(0.1, .) is that value.
verificar_limite_de_taxa(self) ==
    LET tempo_decorrido == self.now - self.inicio_do_minuto
    IN  IF tempo_decorrido >= RateWindow
        THEN [wait |-> 0,
              self |-> [self EXCEPT !.inicio_do_minuto = self.now,
                                    !.requests_feitos_no_minuto = 0]]
        ELSE IF self.requests_feitos_no_minuto >= limite_requisicoes_por_minuto
        THEN [wait |-> RateWindow - tempo_decorrido, self |-> self]
        ELSE [wait |-> 0, self |-> self]

\* atualizar_contador_requisicoes().
atualizar_contador_requisicoes(self) ==
    IF self.now - self.inicio_do_minuto < RateWindow
    THEN [self EXCEPT !.requests_feitos_no_minuto = @ + 1]
    ELSE [self EXCEPT !.inicio_do_minuto = self.now, !.requests_feitos_no_minuto = 1]

\* Time passes, between calls and while the model answers.
LlmTick ==
    /\ llm.pc # None
    /\ llm.now < MaxTime
    /\ llm' = [llm EXCEPT !.now = @ + 1]

\* executar_solicitacao(prompt) up to chat_llm.invoke(prompt): the rate
\* check, the sleep it asks for, and the request leaving for the model.
executar_solicitacao ==
    /\ llm.pc = "idle"
    /\ Len(llm.sent) < MaxRequests
    /\ LET v == verificar_limite_de_taxa(llm)
           t == llm.now + v.wait
       IN  /\ t <= MaxTime
           /\ llm' = [v.self EXCEPT !.now = t, !.sent = Append(@, t), !.pc = "invoke"]

\* chat_llm.invoke returns or raises: the counter is updated after a
\* successful call only; the except branch returns None.
LlmInvokeEnds(ok) ==
    /\ llm.pc = "invoke"
    /\ llm' = IF ok
              THEN [atualizar_contador_requisicoes(llm) EXCEPT
                      !.pc = "idle", !.result = Append(@, "content")]
              ELSE [llm EXCEPT !.pc = "idle", !.result = Append(@, None)]

NextLLM ==
    \/ LlmTick /\ UNCHANGED <<walkVars, listVars, xferVars, batchVars, consolVars, callVars, crawl>>
    \/ executar_solicitacao
          /\ UNCHANGED <<walkVars, listVars, xferVars, batchVars, consolVars, callVars, crawl>>
    \/ \E ok \in BOOLEAN :
          LlmInvokeEnds(ok)
             /\ UNCHANGED <<walkVars, listVars, xferVars, batchVars, consolVars, callVars, crawl>>

SpecLLM == InitLLM /\ [][NextLLM]_vars

\* The requests sent to the model within the current counting window.
SentInWindow ==
    {k \in 1..Len(llm.sent) :
       /\ llm.inicio_do_minuto <= llm.sent[k]
       /\ llm.sent[k] < llm.inicio_do_minuto + RateWindow}

\* C37: whatever the calls of executar_solicitacao and whether the model
\* call succeeds or raises, at most limite_requisicoes_por_minuto requests
\* are sent to the model within the counting window that starts at
\* inicio_do_minuto.
C37_AtMostLimitPerWindow ==
    llm.pc # None => Cardinality(SentInWindow) <= limite_requisicoes_por_minuto

\* The same for calls that all succeeded: then the counter does bound the
\* requests of the window.
LimitHoldsWhenAllSucceed ==
    (llm.pc # None /\ \A k \in 1..Len(llm.result) : llm.result[k] # None)
        => Cardinality(SentInWindow) <= limite_requisicoes_por_minuto

(***************************************************************************)
(* CrawlAndScrapeSiteTool._run (WebTools.py).  URLs are numbers: those of  *)
(* SiteUrls are on the domain of base_url, ExternalUrls on another one.   *)
(* A page is the list of the links it holds, in document order.            *)
(***************************************************************************)
MaxLinks == 2
MaxPages == 2

SiteUrls == {1, 2}
ExternalUrls == {3}
CrawlUrls == SiteUrls \cup ExternalUrls
LinkLists == UNION {[1..n -> CrawlUrls] : n \in 0..MaxLinks}
ExtractModes == {"text", "text_and_links", "links"}

\* urlparse(link).netloc == base_domain
SameDomain(link) == link \in SiteUrls

\* The for loop of _extract_page_content over links_found: the queue after
\* the links from position k on were handled.
RECURSIVE AppendLinks(_, _, _, _)
AppendLinks(links, k, to_crawl, crawled) ==
    IF k > Len(links) THEN to_crawl
    ELSE LET link == links[k]
             InQueue == \E q \in 1..Len(to_crawl) : to_crawl[q] = link
         IN  AppendLinks(links, k + 1,
                         IF SameDomain(link) /\ link \notin crawled /\ ~InQueue
                         THEN Append(to_crawl, link) ELSE to_crawl,
                         crawled)

\* _extract_page_content(soup, url, extract, ...): the queue, the entry of
\* crawled_data and the page_links it returns.
extract_page_content(c, url, links) ==
    IF c.extract \in {"text", "text_and_links", "all"}
    THEN IF c.extract \in {"text_and_links", "all"}
         THEN [to_crawl |-> AppendLinks(links, 1, c.to_crawl, c.crawled),
               stored |-> TRUE, page_links |-> links]
         ELSE [to_crawl |-> c.to_crawl, stored |-> TRUE, page_links |-> <<>>]
    ELSE [to_crawl |-> c.to_crawl, stored |-> FALSE, page_links |-> <<>>]

\* crawled_data[url] = value
SetItem(d, key, value) == [u \in DOMAIN d \cup {key} |-> IF u = key THEN value ELSE d[u]]

InitCrawl ==
    /\ IdleWalk
    /\ list_call = ListIdle
    /\ xfer = XferIdle
    /\ IdleBatch
    /\ IdleConsolidate
    /\ IdleCall
    /\ IdleLLM
    /\ crawl \in [pc : {"called"}, site : [SiteUrls -> LinkLists], base_url : {1},
                  max_pages : 0..MaxPages, extract : ExtractModes, to_crawl : {<<>>},
                  crawled : {{}}, page_count : {0}, crawled_data : {<<>>},
                  requested : {<<>>}]

\* _run(base_url, max_pages, extract) up to the while loop.
CrawlRun ==
    /\ crawl.pc = "called"
    /\ crawl' = [crawl EXCEPT !.pc = "loop", !.to_crawl = <<crawl.base_url>>]

\* One pass through the body of the while loop, its finally clause
\* included: the return in it ends _run whatever the try block did.
CrawlIteration(response) ==
    /\ crawl.pc = "loop"
    /\ crawl.to_crawl # <<>> /\ crawl.page_count < crawl.max_pages
    /\ LET url == Head(crawl.to_crawl)
           c == [crawl EXCEPT !.to_crawl = Tail(@)]
       IN  IF url \in crawl.crawled
           THEN crawl' = c
           ELSE IF response = "ok"
           THEN LET x == extract_page_content(c, url, c.site[url])
                IN  crawl' = [c EXCEPT
                        !.requested = Append(@, url),
                        !.to_crawl = x.to_crawl,
                        !.crawled_data =
                            IF x.stored
                            THEN SetItem(@, url, [error |-> FALSE, links |-> x.page_links])
                            ELSE @,
                        !.crawled = @ \cup {url},
                        !.page_count = @ + 1,
                        !.pc = "returned"]
           ELSE crawl' = [c EXCEPT
                        !.requested = Append(@, url),
                        !.crawled_data = SetItem(@, url, [error |-> TRUE, links |-> <<>>]),
                        !.pc = "returned"]

\* The while condition is false: the return after the loop.
CrawlLoopEnds ==
    /\ crawl.pc = "loop"
    /\ ~(crawl.to_crawl # <<>> /\ crawl.page_count < crawl.max_pages)
    /\ crawl' = [crawl EXCEPT !.pc = "returned"]

NextCrawl ==
    \/ CrawlRun /\ UNCHANGED <<walkVars, listVars, xferVars, batchVars, consolVars, callVars, llm>>
    \/ \E response \in {"ok", "http_error"} :
          CrawlIteration(response)
             /\ UNCHANGED <<walkVars, listVars, xferVars, batchVars, consolVars, callVars, llm>>
    \/ CrawlLoopEnds
          /\ UNCHANGED <<walkVars, listVars, xferVars, batchVars, consolVars, callVars, llm>>

SpecCrawl == InitCrawl /\ [][NextCrawl]_vars

\* C38: with link extraction enabled the crawl goes on taking URLs from the
\* queue until the queue is empty or max_pages pages were scraped, and no
\* URL is requested twice.
C38_CrawlsUntilQueueEmptyOrMaxPages ==
    (crawl.pc = "returned" /\ crawl.extract = "text_and_links") =>
        /\ crawl.to_crawl = <<>> \/ crawl.page_count >= crawl.max_pages
        /\ \A a, b \in 1..Len(crawl.requested) :
              crawl.requested[a] = crawl.requested[b] => a = b

\* What the code does keep: no URL is requested twice, and at most
\* max_pages pages are scraped.
CrawlAtMostOnce ==
    crawl.pc # None =>
        /\ \A a, b \in 1..Len(crawl.requested) :
              crawl.requested[a] = crawl.requested[b] => a = b
        /\ crawl.page_count <= crawl.max_pages
        /\ Len(crawl.requested) <= 1

(***************************************************************************)
(* EmbeddingGenerator.process_batch (EmbeddingGenerator.py): the split of  *)
(* one file's token list into chunks and the record kept for each chunk.   *)
(***************************************************************************)
MaxTokens == 5

\* DOCUMENT_CHUNK_SIZE = 50, scaled.
DOCUMENT_CHUNK_SIZE == 2

Tokens == {"a", "b"}
TokenLists == UNION {[1..n -> Tokens] : n \in 0..MaxTokens}

\* num_chunks = (len(tokens) + DOCUMENT_CHUNK_SIZE - 1) // DOCUMENT_CHUNK_SIZE
num_chunks(tokens) == (Len(tokens) + DOCUMENT_CHUNK_SIZE - 1) \div DOCUMENT_CHUNK_SIZE

\* The mutation of C39: every chunk starts one token early.
chunk_tokens_overlapping(tokens, k) ==
    PySlice(tokens, IF k = 0 THEN 0 ELSE k * DOCUMENT_CHUNK_SIZE - 1,
            Min((k + 1) * DOCUMENT_CHUNK_SIZE, Len(tokens)))

\* chunk_tokens = tokens[start_index:end_index] of chunk k
chunk_tokens(tokens, k) ==
    LET start_index == k * DOCUMENT_CHUNK_SIZE
        end_index == Min((k + 1) * DOCUMENT_CHUNK_SIZE, Len(tokens))
    IN  PySlice(tokens, start_index, end_index)

InitChunks ==
    /\ IdleWalk
    /\ list_call = ListIdle
    /\ xfer = XferIdle
    /\ IdleBatch
    /\ IdleConsolidate
    /\ IdleTools
    /\ call \in [fn : {"process_batch"}, tokens : TokenLists, k : {0}, chunks : {<<>>},
                 generated : {<<>>}, embeddings_data : {<<>>}, done : {FALSE}]

\* One pass of "for i in range(num_chunks)": the chunk is cut, handed to
\* generate_embeddings, which returns a path (ok) or None, and recorded when
\* a path came back.
ChunkIteration(ok) ==
    /\ call.fn = "process_batch" /\ ~call.done
    /\ call.tokens # <<>>
    /\ call.k < num_chunks(call.tokens)
    /\ LET chunk == chunk_tokens(call.tokens, call.k)
       IN  call' =
             IF chunk # <<>>
             THEN [call EXCEPT
                     !.chunks = Append(@, chunk),
                     !.generated = Append(@, ok),
                     !.embeddings_data =
                         IF ok THEN Append(@, [chunk_id |-> call.k]) ELSE @,
                     !.k = @ + 1]
             ELSE [call EXCEPT !.k = @ + 1]

\* The loop is over, or "if tokens:" was false.
ChunksEnd ==
    /\ call.fn = "process_batch" /\ ~call.done
    /\ call.tokens = <<>> \/ call.k >= num_chunks(call.tokens)
    /\ call' = [call EXCEPT !.done = TRUE]

NextChunks ==
    \/ \E ok \in BOOLEAN :
          ChunkIteration(ok) /\ UNCHANGED <<walkVars, listVars, xferVars, batchVars, consolVars, toolVars>>
    \/ ChunksEnd /\ UNCHANGED <<walkVars, listVars, xferVars, batchVars, consolVars, toolVars>>

SpecChunks == InitChunks /\ [][NextChunks]_vars

\* The chunks handed to generate_embeddings are consecutive, non-empty, of
\* at most DOCUMENT_CHUNK_SIZE tokens, and together they are the token list.
ChunksPartitionTokens ==
    /\ \A c \in 1..Len(call.chunks) :
          /\ call.chunks[c] # <<>>
          /\ Len(call.chunks[c]) <= DOCUMENT_CHUNK_SIZE
    /\ Flatten(call.chunks) = call.tokens

\* The chunk ids recorded, in the order of embeddings_data.
RecordedChunkIds == [r \in 1..Len(call.embeddings_data) |-> call.embeddings_data[r].chunk_id]

\* C39 as stated: the token list is split into consecutive non-empty chunks
\* of at most DOCUMENT_CHUNK_SIZE tokens whose concatenation is the token
\* list, and the chunk ids 0..n-1 are recorded in that order.
C39_RecordsEveryChunkId ==
    (call.fn = "process_batch" /\ call.done) =>
        /\ ChunksPartitionTokens
        /\ RecordedChunkIds = [r \in 1..Len(call.chunks) |-> r - 1]

\* C39 amended: the split is as stated; the ids recorded are, in increasing
\* order, those of the chunks for which generate_embeddings returned a path,
\* which is 0..n-1 when it did so for every chunk.
C39_RecordsGeneratedChunkIds ==
    (call.fn = "process_batch" /\ call.done) =>
        /\ ChunksPartitionTokens
        /\ Len(call.chunks) = num_chunks(call.tokens)
        /\ \A r \in 1..Len(RecordedChunkIds) :
              /\ RecordedChunkIds[r] \in 0..(Len(call.chunks) - 1)
              /\ call.generated[RecordedChunkIds[r] + 1]
              /\ r > 1 => RecordedChunkIds[r - 1] < RecordedChunkIds[r]
        /\ \A c \in 1..Len(call.chunks) :
              call.generated[c] => \E r \in 1..Len(RecordedChunkIds) : RecordedChunkIds[r] = c - 1
        /\ (\A c \in 1..Len(call.chunks) : call.generated[c])
              => RecordedChunkIds = [r \in 1..Len(call.chunks) |-> r - 1]

\* A list of five tokens gives three chunks, the last of one token; the
\* embedding of the second failed and ids 0 and 2 are recorded.
C39_Witness ==
    /\ call.fn = "process_batch"
    /\ call.done
    /\ call.tokens = <<"a", "b", "a", "b", "a">>
    /\ call.chunks = <<<<"a", "b">>, <<"a", "b">>, <<"a">>>>
    /\ RecordedChunkIds = <<0, 2>>

\* The step of process_batches in which cleanup_temp_files runs: the batch
\* ends, with batch_downloaded_files as the paths given.
CleanupStep == pb_pc \in {"gather", "crew"} /\ (pb_pc' = "done" \/ i' # i)

\* C40: cleanup_temp_files removes the paths it is given and changes no
\* other file of the staging directory, and it removes the directory only
\* when no file is left in it after those removals.
C40_CleanupOnlyGivenPaths ==
    [][CleanupStep =>
         /\ \A p \in Paths :
               IF p \in SeqToSet(batch_downloaded_files')
               THEN disk'[p] = 0
               ELSE disk'[p] = disk[p]
         /\ (temp_dir_exists /\ ~temp_dir_exists') => \A p \in Paths : disk'[p] = 0
         /\ temp_dir_exists' => temp_dir_exists]_vars

\* The run is over, the last cleanup was given the file of batch 2 and
\* removed it, and the file a thread of batch 1 left behind is still in the
\* staging directory, which therefore stays.
C40_Witness ==
    /\ pb_pc = "done"
    /\ batch_downloaded_files = <<PathOf(3)>>
    /\ disk[PathOf(3)] = 0
    /\ disk[PathOf(1)] # 0
    /\ temp_dir_exists
    /\ \A j \in FileIdx : thread[j] # "running"

====
